---- MODULE Spec2Model ----
(***************************************************************************)
(* Emergency lifecycle controller of the ambulance booking server:         *)
(* the REST handlers of routes/emergency.js and routes/ambulance.js acting *)
(* on the Emergency, Ambulance and Hospital collections.                   *)
(*                                                                         *)
(* One action is one HTTP request run to completion (Spec).  Every handler *)
(* is an early-return chain: the first failing check decides the response  *)
(* code and nothing is written; only a request that passes all checks      *)
(* writes.  http is the request being answered together with its response  *)
(* code; Respond sends it, after which the next request is taken.          *)
(* SpecDeep is Spec with longer timelines, SpecLifecycle follows one       *)
(* emergency to its end, and SpecConc runs two handlers at once, one       *)
(* action per stretch of code between two awaits; SpecRace does so for     *)
(* status requests alone.  SpecFeedback is the feedback route with the     *)
(* hospital's rating in binary64, SpecNearby the nearby-hospital lookup,   *)
(* SpecServices the assign with the outcomes of its route and SMS calls,   *)
(* SpecHospitals the hospital create/update/delete with user roles,        *)
(* SpecFleet the ambulance create/list/read/update/delete with the         *)
(* hospitals' ambulance lists, SpecPayments the payment routes, SpecRoutes *)
(* the routers' route tables with the protect middleware, SpecCapacity the *)
(* hospital capacity update, SpecRelay the requests that broadcast an      *)
(* event through req.io, and SpecDouble two assign requests in flight on   *)
(* two pending emergencies.                                                *)
(*                                                                         *)
(* Left out of the records: timestamps and notes (no handler modelled here *)
(* reads them back).                                                       *)
(***************************************************************************)
EXTENDS Integers, Sequences, FiniteSets, TLC

\* ------------------------------------------------------------------ bounds
MaxTotal == 1
MaxTimeline == 3
MaxDeep == 4
MaxLifecycle == 6

\* ------------------------------------------------------------- identifiers
Null == "null"
\* a well-formed id that names no stored document (findById returns null)
NoSuchId == "nosuch"
\* a field that is missing from the request body
Absent == "absent"

EmergencyIds == {"e1", "e2"}
AmbulanceIds == {"a1"}
HospitalIds == {"h1"}

\* ------------------------------------------------------------------ users
Users == {"admin", "hadmin", "driver", "pat", "req"}

role ==
  [u \in Users |->
     CASE u = "admin" -> "admin"
       [] u = "hadmin" -> "hospital_admin"
       [] u = "driver" -> "driver"
       [] OTHER -> "user"]

isVerified == [u \in Users |-> u = "req"]

\* Hospital.administrators
administrators == [h \in HospitalIds |-> IF h = "h1" THEN {"hadmin"} ELSE {}]

\* ------------------------------------------------------------------ enums
validStatuses ==
  {"pending", "assigned", "en_route", "arrived_at_patient",
   "transporting", "arrived_at_hospital", "completed", "cancelled"}

ambulanceStatuses == {"available", "busy", "maintenance", "offline"}

statusMap ==
  [s \in validStatuses |->
     CASE s = "pending" -> "emergency_requested"
       [] s = "assigned" -> "ambulance_assigned"
       [] s = "en_route" -> "ambulance_en_route"
       [] s = "arrived_at_patient" -> "ambulance_arrived_at_patient"
       [] s = "transporting" -> "patient_picked_up"
       [] s = "arrived_at_hospital" -> "arrived_at_hospital"
       [] s = "completed" -> "emergency_completed"
       [] s = "cancelled" -> "emergency_cancelled"]

\* ------------------------------------------------------------------ state
VARIABLES
  emergencies,  \* Emergency collection: id -> document
  ambulances,   \* Ambulance collection: id -> document
  hospitals,    \* Hospital collection: id -> emergencyCapacity
  http,         \* the request being answered: route, req.params.id, req.body, res status
  lastAssign,   \* history, per hospital: the assign that wrote its capacity last (the
                \* emergency and the capacity it read), NoAssign once it is restored
  procs,        \* handlers suspended at an await: position and local variables
  feedback,     \* Emergency collection: id -> feedback.rating (<<>>: none)
  rating,       \* Hospital collection: id -> rating (average, count)
  lookup,       \* GET /api/hospitals/nearby: what the store and the maps provider
                \* hold, the query, and the response once it is sent
  side,         \* emergency.route of each emergency and the SMS delivered
  directory,    \* the hospital administration routes' view of the database:
                \* User.role of each user, Hospital.administrators of each hospital
  fleet,        \* the ambulance routes' view: Ambulance.hospital of each
                \* ambulance, Hospital.ambulances of each hospital
  payments,     \* Payment collection: id -> amount, status, refund, and the
                \* refunds processed so far
  writes,       \* the number of requests the router let through to a handler
                \* that wrote to the database
  emitted,      \* the events the controllers broadcast through req.io
  locations     \* Ambulance collection: id -> currentLocation (<<>>: none)

vars ==
  <<emergencies, ambulances, hospitals, http, lastAssign, procs, feedback, rating, lookup,
    side, directory, fleet, payments, writes, emitted, locations>>

\* what the routes outside the emergency lifecycle read and write, and the
\* traces of the external services
others == <<feedback, rating, lookup, side, directory, fleet, payments, writes, emitted, locations>>

db == <<emergencies, ambulances, hospitals>>

Idle == [op |-> "idle"]

NoEmergency ==
  [exists |-> FALSE, status |-> "pending", ambulance |-> Null, hospital |-> Null,
   timeline |-> <<>>, patient |-> Null, requestedBy |-> Null]

\* no assign has written the hospital's capacity since it was last restored
NoAssign == [id |-> Null, available |-> 0]

Procs == {"p1", "p2"}

IdleProc == [pc |-> "idle"]

\* ---- JavaScript Number (IEEE 754 binary64) for the values a rating takes
\* A Number that is 0, or at least 1 and below 64, is a whole multiple of
\* 2^-52; it is kept as that multiple, in three digits <<h, m, l>> of base
\* 2^26 (h is the integer part).  Results are rounded to 53 significant bits,
\* to nearest, ties to even.
Base == 2^26

numberOf(n) == <<n, 0, 0>>

bigAdd(x, y) ==
  LET l == x[3] + y[3]
      m == x[2] + y[2] + l \div Base
  IN <<x[1] + y[1] + m \div Base, m % Base, l % Base>>

bigTimes(x, n) ==
  LET l == x[3] * n
      m == x[2] * n + l \div Base
  IN <<x[1] * n + m \div Base, m % Base, l % Base>>

\* quotient and remainder of x by the integer d
bigDiv(x, d) ==
  LET r1 == x[1] % d
      r2 == (r1 * Base + x[2]) % d
  IN [q |-> <<x[1] \div d, (r1 * Base + x[2]) \div d, (r2 * Base + x[3]) \div d>>,
      r |-> (r2 * Base + x[3]) % d]

bigLeq(x, y) ==
  \/ x[1] < y[1]
  \/ x[1] = y[1] /\ x[2] < y[2]
  \/ x[1] = y[1] /\ x[2] = y[2] /\ x[3] <= y[3]

\* the spacing of the Numbers around x, in units of 2^-52
ulp(x) ==
  IF x[1] < 2 THEN 1 ELSE IF x[1] < 4 THEN 2 ELSE IF x[1] < 8 THEN 4
  ELSE IF x[1] < 16 THEN 8 ELSE IF x[1] < 32 THEN 16 ELSE 32

\* the Number nearest to x + r / d
roundNumber(x, r, d) ==
  LET p == ulp(x)
      low == x[3] % p
      down == <<x[1], x[2], x[3] - low>>
      up == bigAdd(down, <<0, 0, p>>)
      twice == 2 * (low * d + r)
      odd == ((x[3] - low) \div p) % 2 = 1
  IN IF twice > p * d \/ (twice = p * d /\ odd) THEN up ELSE down

\* x * n, x + n and x / d of JavaScript, n and d integers
times(x, n) == roundNumber(bigTimes(x, n), 0, 1)

plus(x, n) == roundNumber(bigAdd(x, numberOf(n)), 0, 1)

dividedBy(x, d) == LET qr == bigDiv(x, d) IN roundNumber(qr.q, qr.r, d)

\* payments
PaymentIds == {"p1"}

\* no payment document; refund <<>>: no refund stored; refunds: the amounts
\* of the refunds processed, in order
NoPayment == [exists |-> FALSE, amount |-> 0, status |-> "pending", refund |-> <<>>,
              refunds |-> <<>>]

\* the ambulances and hospitals of the ambulance routes
FleetAmbulances == {"a1", "a2"}

FleetHospitals == {"h1", "h2"}

NoAmbulance == [exists |-> FALSE, hospital |-> Null]

\* no ambulance yet, both hospitals with an empty ambulances list
NoFleet ==
  [ambulance |-> [a \in FleetAmbulances |-> NoAmbulance],
   ambulances |-> [h \in FleetHospitals |-> <<>>]]

\* the users and hospitals of the hospital administration routes
StaffUsers == {"admin", "hadmin", "pat"}

StaffHospitals == {"h1", "h2"}

NoHospital == [exists |-> FALSE, administrators |-> {}]

\* no hospital yet; one admin, the others plain users
NoDirectory ==
  [role |-> [u \in StaffUsers |-> IF u = "admin" THEN "admin" ELSE "user"],
   hospital |-> [h \in StaffHospitals |-> NoHospital]]

\* no route computed, no SMS delivered
NoSide == [route |-> [e \in EmergencyIds |-> <<>>], sms |-> {}]

\* no nearby lookup going on
NoLookup == [state |-> "none"]

\* hospitalSchema.rating defaults
NoRating == [average |-> numberOf(0), count |-> 0]

\* a hospital with 0 <= available <= total
Capacities == {[total |-> MaxTotal, available |-> v] : v \in 0..MaxTotal}

Init ==
  /\ emergencies = [e \in EmergencyIds |-> NoEmergency]
  /\ ambulances =
       [a \in AmbulanceIds |->
          [status |-> "available", activeEmergency |-> Null, driver |-> "driver"]]
  /\ hospitals \in [HospitalIds -> Capacities]
  /\ http = Idle
  /\ lastAssign = [h \in HospitalIds |-> NoAssign]
  /\ procs = [p \in Procs |-> IdleProc]
  /\ feedback = [e \in EmergencyIds |-> <<>>]
  /\ rating = [h \in HospitalIds |-> NoRating]
  /\ lookup = NoLookup
  /\ side = NoSide
  /\ directory = NoDirectory
  /\ fleet = NoFleet
  /\ payments = [p \in PaymentIds |-> NoPayment]
  /\ writes = 0
  /\ emitted = {}
  /\ locations = [a \in AmbulanceIds |-> <<>>]

Max(x, y) == IF x >= y THEN x ELSE y

Min(x, y) == IF x <= y THEN x ELSE y

\* ------------------------------------------------- POST /api/emergencies
createEmergencyCode(u, patientArg) ==
  IF ~isVerified[u] THEN 403
  ELSE IF patientArg # Absent /\ patientArg \notin Users THEN 404
  ELSE 201

\* e: the id the store gives the new document
createEmergency(u, patientArg, e) ==
  LET code == createEmergencyCode(u, patientArg)
      patientId == IF patientArg = Absent THEN u ELSE patientArg
  IN /\ IF code = 201
        THEN emergencies' =
               [emergencies EXCEPT ![e] =
                  [exists |-> TRUE, status |-> "pending", ambulance |-> Null,
                   hospital |-> Null, timeline |-> <<"emergency_requested">>,
                   patient |-> patientId, requestedBy |-> u]]
        ELSE UNCHANGED emergencies
     /\ UNCHANGED <<ambulances, hospitals, lastAssign>>
     /\ http' = [op |-> "create", id |-> e,
                 body |-> [patient |-> patientArg], code |-> code]

\* ---------------------------------------- PUT /api/emergencies/:id/assign
ambulanceNotAvailableIgnored(doc) == FALSE

ambulanceNotAvailable(doc) == doc.status # "available"

assignCode(u, e, ambulanceId, hospitalId) ==
  LET isAdmin == role[u] = "admin"
      isHospitalAdmin ==
        /\ role[u] = "hospital_admin"
        /\ hospitalId # Absent
        /\ hospitalId \in HospitalIds
        /\ u \in administrators[hospitalId]
  IN IF ambulanceId = Absent THEN 400
     ELSE IF ~emergencies[e].exists THEN 404
     ELSE IF ~isAdmin /\ ~isHospitalAdmin THEN 403
     ELSE IF ambulanceId \notin AmbulanceIds THEN 404
     ELSE IF ambulanceNotAvailable(ambulances[ambulanceId]) THEN 400
     ELSE IF ambulances[ambulanceId].driver = Null THEN 400
     ELSE IF hospitalId # Absent /\ hospitalId \notin HospitalIds THEN 404
     ELSE IF hospitalId # Absent /\ hospitals[hospitalId].available <= 0 THEN 400
     ELSE 200

assignEmergency(doc, ambulanceId, hospitalId) ==
  [doc EXCEPT
     !.ambulance = ambulanceId,
     !.status = "assigned",
     !.hospital = IF hospitalId # Absent THEN hospitalId ELSE @,
     !.timeline = Append(@, "ambulance_assigned")]

assignAmbulanceStatusOnly(doc, e) ==
  [doc EXCEPT !.status = "busy"]

assignAmbulance(doc, e) ==
  [doc EXCEPT !.status = "busy", !.activeEmergency = e]

assignHospitalSkipped(doc) == doc

assignHospital(doc) ==
  [doc EXCEPT !.available = Max(0, doc.available - 1)]

assign(u, e, ambulanceId, hospitalId) ==
  LET code == assignCode(u, e, ambulanceId, hospitalId)
  IN /\ IF code = 200
        THEN /\ emergencies' =
                  [emergencies EXCEPT ![e] = assignEmergency(@, ambulanceId, hospitalId)]
             /\ ambulances' = [ambulances EXCEPT ![ambulanceId] = assignAmbulance(@, e)]
             /\ IF hospitalId # Absent
                THEN /\ hospitals' = [hospitals EXCEPT ![hospitalId] = assignHospital(@)]
                     /\ lastAssign' =
                          [lastAssign EXCEPT ![hospitalId] =
                             [id |-> e, available |-> hospitals[hospitalId].available]]
                ELSE UNCHANGED <<hospitals, lastAssign>>
        ELSE UNCHANGED <<db, lastAssign>>
     /\ http' = [op |-> "assign", id |-> e,
                 body |-> [ambulanceId |-> ambulanceId, hospitalId |-> hospitalId],
                 code |-> code]

\* ---------------------------------------- PUT /api/emergencies/:id/status
updateStatusRewritesTimeline(doc, status) ==
  [doc EXCEPT !.status = status, !.timeline = <<statusMap[status]>>]

\* Emergency.methods.updateStatus: set the status, push the mapped entry, save
updateStatus(doc, status) ==
  [doc EXCEPT !.status = status,
              !.timeline = Append(@, statusMap[status])]

isDriverAnyone(u, emergency) == TRUE

\* isDriver: the caller drives the ambulance the emergency references
isDriver(u, emergency) ==
  /\ emergency.ambulance # Null
  /\ ambulances[emergency.ambulance].driver # Null
  /\ ambulances[emergency.ambulance].driver = u

\* the checks of the handler on the emergency document it loaded
statusChecks(u, emergency, driver, status) ==
  LET isAdmin == role[u] = "admin"
      isPatient == emergency.patient = u
      isRequester == emergency.requestedBy = u
  IN IF status = Absent THEN 400
     ELSE IF status \notin validStatuses THEN 400
     ELSE IF ~emergency.exists THEN 404
     ELSE IF status = "cancelled" /\ ~isAdmin /\ ~isPatient /\ ~isRequester THEN 403
     ELSE IF status = "cancelled" /\ emergency.status = "completed" THEN 400
     ELSE IF /\ status \in {"en_route", "arrived_at_patient", "transporting",
                            "arrived_at_hospital", "completed"}
             /\ ~isAdmin /\ ~driver THEN 403
     ELSE IF status = "en_route" /\ emergency.status # "assigned" THEN 400
     ELSE IF /\ status = "arrived_at_patient"
             /\ emergency.status \notin {"assigned", "en_route"} THEN 400
     ELSE IF status = "transporting" /\ emergency.status # "arrived_at_patient" THEN 400
     ELSE IF status = "arrived_at_hospital" /\ emergency.status # "transporting" THEN 400
     ELSE IF status = "completed" /\ emergency.status # "arrived_at_hospital" THEN 400
     ELSE 200

updateStatusCode(u, e, status) ==
  statusChecks(u, emergencies[e], isDriver(u, emergencies[e]), status)

releaseAmbulanceStatusOnly(doc) ==
  [doc EXCEPT !.status = "available"]

\* "Free up the ambulance"
releaseAmbulance(doc) ==
  [doc EXCEPT !.status = "available", !.activeEmergency = Null]

restoreHospitalUncapped(doc) ==
  [doc EXCEPT !.available = doc.available + 1]

\* "restore hospital capacity"
restoreHospital(doc) ==
  [doc EXCEPT !.available = Min(doc.total, doc.available + 1)]

putStatus(u, e, status) ==
  LET code == updateStatusCode(u, e, status)
      emergency == emergencies[e]
  IN /\ IF code = 200
        THEN /\ emergencies' = [emergencies EXCEPT ![e] = updateStatus(@, status)]
             /\ IF status \in {"completed", "cancelled"} /\ emergency.ambulance # Null
                THEN ambulances' =
                       [ambulances EXCEPT ![emergency.ambulance] = releaseAmbulance(@)]
                ELSE UNCHANGED ambulances
             /\ IF status = "completed" /\ emergency.hospital # Null
                THEN /\ hospitals' =
                          [hospitals EXCEPT ![emergency.hospital] = restoreHospital(@)]
                     /\ lastAssign' = [lastAssign EXCEPT ![emergency.hospital] = NoAssign]
                ELSE UNCHANGED <<hospitals, lastAssign>>
        ELSE UNCHANGED <<db, lastAssign>>
     /\ http' = [op |-> "status", id |-> e,
                 body |-> [status |-> status], code |-> code]

\* ----------------------------------------- PUT /api/ambulances/:id/status
ambulanceStatusCode(u, a, status) ==
  IF role[u] # "driver" THEN 403
  ELSE IF status = Absent \/ status \notin ambulanceStatuses THEN 400
  ELSE IF a \notin AmbulanceIds THEN 404
  ELSE IF ambulances[a].driver = Null THEN 500
  ELSE IF ambulances[a].driver # u THEN 403
  ELSE 200

putAmbulanceStatus(u, a, status) ==
  LET code == ambulanceStatusCode(u, a, status)
  IN /\ IF code = 200
        THEN ambulances' = [ambulances EXCEPT ![a].status = status]
        ELSE UNCHANGED ambulances
     /\ UNCHANGED <<emergencies, hospitals, lastAssign>>
     /\ http' = [op |-> "ambulanceStatus", id |-> a,
                 body |-> [status |-> status], code |-> code]

\* ------------------------------------------------ PUT /api/ambulances/:id
\* body: the fields of the request body, all of them spread into the update
updateAmbulanceCode(u, a, body) ==
  IF role[u] # "admin" /\ role[u] # "hospital_admin" THEN 403
  ELSE IF a \notin AmbulanceIds THEN 404
  ELSE IF role[u] = "hospital_admin" THEN 403
  ELSE IF body.driver \notin {Absent, Null} /\ body.driver \notin Users THEN 400
  ELSE IF body.driver \notin {Absent, Null} /\ role[body.driver] # "driver" THEN 400
  ELSE 200

updateAmbulance(u, a, body) ==
  LET code == updateAmbulanceCode(u, a, body)
  IN /\ IF code = 200
        THEN ambulances' =
               [ambulances EXCEPT
                  ![a].status = IF body.status # Absent THEN body.status ELSE @,
                  ![a].driver = IF body.driver # Absent THEN body.driver ELSE @]
        ELSE UNCHANGED ambulances
     /\ UNCHANGED <<emergencies, hospitals, lastAssign>>
     /\ http' = [op |-> "updateAmbulance", id |-> a,
                 body |-> body, code |-> code]

\* ------------------------------------------------------------ the server
RECURSIVE SumLen(_)
SumLen(S) ==
  IF S = {} THEN 0
  ELSE LET e == CHOOSE x \in S : TRUE
       IN Len(emergencies[e].timeline) + SumLen(S \ {e})

\* the timelines have room for one more entry
Room(limit) == SumLen(EmergencyIds) < limit

\* the store hands out fresh ids in order
NextId(e) ==
  /\ ~emergencies[e].exists
  /\ e = "e2" => emergencies["e1"].exists

\* bodies sent to PUT /api/ambulances/:id
ambulanceBodies ==
  [status : ambulanceStatuses, driver : {Absent}]
    \cup [status : {Absent}, driver : {Null, "driver", "pat", NoSuchId}]

\* One request is taken when the previous response has left.  The request's
\* fields are drawn from the sets given; a request that would append to a
\* timeline is taken only while there is room.
Creates(ids, limit) ==
  \E u \in Users, patientArg \in {"pat", NoSuchId}, e \in ids :
    /\ http = Idle
    /\ NextId(e)
    /\ createEmergencyCode(u, patientArg) = 201 => Room(limit)
    /\ createEmergency(u, patientArg, e)
    /\ UNCHANGED <<procs, others>>

Assigns(ids, ambulanceIds, hospitalIds, limit) ==
  \E u \in Users, e \in ids, ambulanceId \in ambulanceIds, hospitalId \in hospitalIds :
    /\ http = Idle
    /\ assignCode(u, e, ambulanceId, hospitalId) = 200 => Room(limit)
    /\ assign(u, e, ambulanceId, hospitalId)
    /\ UNCHANGED <<procs, others>>

PutsStatus(ids, statuses, limit) ==
  \E u \in Users, e \in ids, status \in statuses :
    /\ http = Idle
    /\ updateStatusCode(u, e, status) = 200 => Room(limit)
    /\ putStatus(u, e, status)
    /\ UNCHANGED <<procs, others>>

PutsAmbulanceStatus(ambulanceIds, statuses) ==
  \E u \in Users, a \in ambulanceIds, status \in statuses :
    /\ http = Idle
    /\ putAmbulanceStatus(u, a, status)
    /\ UNCHANGED <<procs, others>>

UpdatesAmbulance(ambulanceIds, bodies) ==
  \E u \in Users, a \in ambulanceIds, body \in bodies :
    /\ http = Idle
    /\ updateAmbulance(u, a, body)
    /\ UNCHANGED <<procs, others>>

\* res.json / the error handler: the response leaves
Respond ==
  /\ http # Idle
  /\ http' = Idle
  /\ UNCHANGED <<db, lastAssign, procs, others>>

\* ---- Spec: every request, well-formed or not, on two emergencies
CreateEmergency == Creates(EmergencyIds, MaxTimeline)

Assign ==
  Assigns(EmergencyIds, AmbulanceIds \cup {NoSuchId, Absent},
          HospitalIds \cup {NoSuchId, Absent}, MaxTimeline)

PutStatus == PutsStatus(EmergencyIds, validStatuses \cup {"bogus", Absent}, MaxTimeline)

PutAmbulanceStatus ==
  PutsAmbulanceStatus(AmbulanceIds \cup {NoSuchId}, ambulanceStatuses \cup {Absent})

UpdateAmbulance == UpdatesAmbulance(AmbulanceIds \cup {NoSuchId}, ambulanceBodies)

Next ==
  \/ CreateEmergency
  \/ Assign
  \/ PutStatus
  \/ PutAmbulanceStatus
  \/ UpdateAmbulance
  \/ Respond

Spec == Init /\ [][Next]_vars

\* ---- SpecDeep: the same requests with room for one more timeline entry
DeepCreateEmergency == Creates(EmergencyIds, MaxDeep)

DeepAssign ==
  Assigns(EmergencyIds, AmbulanceIds \cup {NoSuchId, Absent},
          HospitalIds \cup {NoSuchId, Absent}, MaxDeep)

DeepPutStatus == PutsStatus(EmergencyIds, validStatuses \cup {"bogus", Absent}, MaxDeep)

NextDeep ==
  \/ DeepCreateEmergency
  \/ DeepAssign
  \/ DeepPutStatus
  \/ PutAmbulanceStatus
  \/ UpdateAmbulance
  \/ Respond

SpecDeep == Init /\ [][NextDeep]_vars

\* ---- SpecLifecycle: one emergency taken through the whole lifecycle; the
\* callers send the statuses of the transition table's edges out of assigned
lifecycleStatuses == validStatuses \ {"pending", "assigned"}

LifecycleCreate == Creates({"e1"}, MaxLifecycle)

LifecycleAssign ==
  Assigns({"e1"}, AmbulanceIds, HospitalIds \cup {Absent}, MaxLifecycle)

LifecyclePutStatus == PutsStatus({"e1"}, lifecycleStatuses, MaxLifecycle)

LifecycleAmbulanceStatus == PutsAmbulanceStatus(AmbulanceIds, ambulanceStatuses)

NextLifecycle ==
  \/ LifecycleCreate
  \/ LifecycleAssign
  \/ LifecyclePutStatus
  \/ LifecycleAmbulanceStatus
  \/ Respond

SpecLifecycle == Init /\ [][NextLifecycle]_vars

\* ---- SpecConc: two requests in flight, interleaved at their awaits
\* Each action below is the code of a handler from one await to the next.  A
\* handler works on the documents it loaded; save() writes the paths it gave
\* a new value and pushes onto the stored timeline.
MaxAppends == 5

ConcUsers == {"admin"}

SavePathAlways(stored, loaded, new) == new

\* Document.save: a path is written when it was given a value other than the
\* one loaded
SavePath(stored, loaded, new) == IF new # loaded THEN new ELSE stored

\* e1 was created, assigned a1 and h1 and driven to the hospital
arrivedEmergency ==
  [exists |-> TRUE, status |-> "arrived_at_hospital", ambulance |-> "a1",
   hospital |-> "h1",
   timeline |-> <<"emergency_requested", "ambulance_assigned",
                  "ambulance_arrived_at_patient", "patient_picked_up",
                  "arrived_at_hospital">>,
   patient |-> "pat", requestedBy |-> "req"]

\* e2 was just created
pendingEmergency ==
  [exists |-> TRUE, status |-> "pending", ambulance |-> Null, hospital |-> Null,
   timeline |-> <<"emergency_requested">>, patient |-> "pat", requestedBy |-> "req"]

InitConc ==
  /\ emergencies = [e \in EmergencyIds |->
                      IF e = "e1" THEN arrivedEmergency ELSE pendingEmergency]
  /\ ambulances =
       [a \in AmbulanceIds |->
          [status |-> "busy", activeEmergency |-> "e1", driver |-> "driver"]]
  /\ hospitals \in [HospitalIds -> {c \in Capacities : c.available < c.total}]
  /\ http = Idle
  /\ lastAssign = [h \in HospitalIds |-> NoAssign]
  /\ procs = [p \in Procs |-> IdleProc]
  /\ feedback = [e \in EmergencyIds |-> <<>>]
  /\ rating = [h \in HospitalIds |-> NoRating]
  /\ lookup = NoLookup
  /\ side = NoSide
  /\ directory = NoDirectory
  /\ fleet = NoFleet
  /\ payments = [p \in PaymentIds |-> NoPayment]
  /\ writes = 0
  /\ emitted = {}
  /\ locations = [a \in AmbulanceIds |-> <<>>]

InFlight == Cardinality({p \in Procs : procs[p].pc \notin {"idle", "done"}})

\* a slot for a new request, while the timelines have room for its entry
FreeSlot(p) ==
  /\ procs[p].pc = "idle"
  /\ p = "p2" => procs["p1"].pc # "idle"
  /\ SumLen(EmergencyIds) + InFlight
       < Len(arrivedEmergency.timeline) + Len(pendingEmergency.timeline) + MaxAppends

At(p, pc) == procs[p].pc = pc

Goto(p, pc) == procs' = [procs EXCEPT ![p].pc = pc]

Done(p, code) ==
  procs' = [procs EXCEPT ![p] =
              [pc |-> "done", op |-> procs[p].op, id |-> procs[p].id, code |-> code]]

\* assign, to "const emergency = await Emergency.findById" and the permission check
assignFindEmergency(p, u, e, ambulanceId, hospitalId) ==
  LET isAdmin == role[u] = "admin"
      isHospitalAdmin ==
        /\ role[u] = "hospital_admin"
        /\ hospitalId # Absent
        /\ hospitalId \in HospitalIds
        /\ u \in administrators[hospitalId]
      started == [pc |-> "assignFindAmbulance", op |-> "assign", user |-> u, id |-> e,
                  ambulanceId |-> ambulanceId, hospitalId |-> hospitalId,
                  emergency |-> emergencies[e], ambulance |-> Null, hospital |-> Null]
  IN /\ FreeSlot(p)
     /\ procs' = [procs EXCEPT ![p] =
                    IF ambulanceId = Absent
                    THEN [pc |-> "done", op |-> "assign", id |-> e, code |-> 400]
                    ELSE IF ~emergencies[e].exists
                    THEN [pc |-> "done", op |-> "assign", id |-> e, code |-> 404]
                    ELSE IF ~isAdmin /\ ~isHospitalAdmin
                    THEN [pc |-> "done", op |-> "assign", id |-> e, code |-> 403]
                    ELSE started]
     /\ UNCHANGED <<db, http, lastAssign, others>>

\* "const ambulance = await Ambulance.findById(ambulanceId)" and its checks
assignFindAmbulance(p) ==
  LET a == procs[p].ambulanceId
  IN /\ At(p, "assignFindAmbulance")
     /\ IF a \notin AmbulanceIds THEN Done(p, 404)
        ELSE IF ambulanceNotAvailable(ambulances[a]) THEN Done(p, 400)
        ELSE IF ambulances[a].driver = Null THEN Done(p, 400)
        ELSE procs' = [procs EXCEPT
                         ![p].ambulance = ambulances[a],
                         ![p].pc = IF procs[p].hospitalId # Absent
                                   THEN "assignFindHospital" ELSE "assignSaveEmergency"]
     /\ UNCHANGED <<db, http, lastAssign, others>>

\* "hospital = await Hospital.findById(hospitalId)" and the capacity check
assignFindHospital(p) ==
  LET h == procs[p].hospitalId
  IN /\ At(p, "assignFindHospital")
     /\ IF h \notin HospitalIds THEN Done(p, 404)
        ELSE IF hospitals[h].available <= 0 THEN Done(p, 400)
        ELSE procs' = [procs EXCEPT ![p].hospital = hospitals[h],
                                    ![p].pc = "assignSaveEmergency"]
     /\ UNCHANGED <<db, http, lastAssign, others>>

\* "await emergency.save()"
assignSaveEmergency(p) ==
  LET e == procs[p].id
      loaded == procs[p].emergency
      new == assignEmergency(loaded, procs[p].ambulanceId, procs[p].hospitalId)
  IN /\ At(p, "assignSaveEmergency")
     /\ emergencies' =
          [emergencies EXCEPT ![e] =
             [@ EXCEPT !.ambulance = SavePath(@, loaded.ambulance, new.ambulance),
                       !.status = SavePath(@, loaded.status, new.status),
                       !.hospital = SavePath(@, loaded.hospital, new.hospital),
                       !.timeline = Append(@, "ambulance_assigned")]]
     /\ Goto(p, "assignSaveAmbulance")
     /\ UNCHANGED <<ambulances, hospitals, http, lastAssign, others>>

\* "await ambulance.save()"
assignSaveAmbulance(p) ==
  LET a == procs[p].ambulanceId
      loaded == procs[p].ambulance
      new == assignAmbulance(loaded, procs[p].id)
  IN /\ At(p, "assignSaveAmbulance")
     /\ ambulances' =
          [ambulances EXCEPT ![a] =
             [@ EXCEPT !.status = SavePath(@, loaded.status, new.status),
                       !.activeEmergency =
                          SavePath(@, loaded.activeEmergency, new.activeEmergency)]]
     /\ IF procs[p].hospitalId # Absent
        THEN Goto(p, "assignSaveHospital") ELSE Done(p, 200)
     /\ UNCHANGED <<emergencies, hospitals, http, lastAssign, others>>

\* "await hospital.save()"
assignSaveHospital(p) ==
  LET h == procs[p].hospitalId
      loaded == procs[p].hospital
      new == assignHospital(loaded)
  IN /\ At(p, "assignSaveHospital")
     /\ hospitals' =
          [hospitals EXCEPT ![h].available = SavePath(@, loaded.available, new.available)]
     /\ Done(p, 200)
     /\ UNCHANGED <<emergencies, ambulances, http, lastAssign, others>>

\* updateStatus, to "const emergency = await Emergency.findById(...).populate"
statusFindEmergency(p, u, e, status) ==
  /\ FreeSlot(p)
  /\ procs' = [procs EXCEPT ![p] =
                 IF status = Absent \/ status \notin validStatuses
                 THEN [pc |-> "done", op |-> "status", id |-> e, code |-> 400]
                 ELSE IF ~emergencies[e].exists
                 THEN [pc |-> "done", op |-> "status", id |-> e, code |-> 404]
                 ELSE [pc |-> "statusFindDriver", op |-> "status", user |-> u, id |-> e,
                       status |-> status, emergency |-> emergencies[e],
                       ambulance |-> Null, hospital |-> Null]]
  /\ UNCHANGED <<db, http, lastAssign, others>>

\* "const ambulance = await Ambulance.findById(emergency.ambulance._id)" and
\* the authorization and validation on the loaded emergency
statusFindDriver(p) ==
  LET loaded == procs[p].emergency
      code == statusChecks(procs[p].user, loaded, isDriver(procs[p].user, loaded),
                           procs[p].status)
  IN /\ At(p, "statusFindDriver")
     /\ IF code = 200 THEN Goto(p, "statusSave") ELSE Done(p, code)
     /\ UNCHANGED <<db, http, lastAssign, others>>

\* "await emergency.updateStatus(status, notes)"
statusSave(p) ==
  LET e == procs[p].id
      loaded == procs[p].emergency
      status == procs[p].status
      new == updateStatus(loaded, status)
  IN /\ At(p, "statusSave")
     /\ emergencies' =
          [emergencies EXCEPT ![e] =
             [@ EXCEPT !.status = SavePath(@, loaded.status, new.status),
                       !.timeline = Append(@, statusMap[status])]]
     /\ IF status \in {"completed", "cancelled"} /\ loaded.ambulance # Null
        THEN Goto(p, "statusFindAmbulance")
        ELSE IF status = "completed" /\ loaded.hospital # Null
        THEN Goto(p, "statusFindHospital")
        ELSE Done(p, 200)
     /\ UNCHANGED <<ambulances, hospitals, http, lastAssign, others>>

\* "const ambulance = await Ambulance.findById(emergency.ambulance)"
statusFindAmbulance(p) ==
  /\ At(p, "statusFindAmbulance")
  /\ procs' = [procs EXCEPT ![p].ambulance = ambulances[procs[p].emergency.ambulance],
                            ![p].pc = "statusSaveAmbulance"]
  /\ UNCHANGED <<db, http, lastAssign, others>>

\* "await ambulance.save()"
statusSaveAmbulance(p) ==
  LET loaded == procs[p].ambulance
      new == releaseAmbulance(loaded)
  IN /\ At(p, "statusSaveAmbulance")
     /\ ambulances' =
          [ambulances EXCEPT ![procs[p].emergency.ambulance] =
             [@ EXCEPT !.status = SavePath(@, loaded.status, new.status),
                       !.activeEmergency =
                          SavePath(@, loaded.activeEmergency, new.activeEmergency)]]
     /\ IF procs[p].status = "completed" /\ procs[p].emergency.hospital # Null
        THEN Goto(p, "statusFindHospital") ELSE Done(p, 200)
     /\ UNCHANGED <<emergencies, hospitals, http, lastAssign, others>>

\* "const hospital = await Hospital.findById(emergency.hospital)"
statusFindHospital(p) ==
  /\ At(p, "statusFindHospital")
  /\ procs' = [procs EXCEPT ![p].hospital = hospitals[procs[p].emergency.hospital],
                            ![p].pc = "statusSaveHospital"]
  /\ UNCHANGED <<db, http, lastAssign, others>>

\* "await hospital.save()"
statusSaveHospital(p) ==
  LET loaded == procs[p].hospital
      new == restoreHospital(loaded)
  IN /\ At(p, "statusSaveHospital")
     /\ hospitals' =
          [hospitals EXCEPT ![procs[p].emergency.hospital].available =
             SavePath(@, loaded.available, new.available)]
     /\ Done(p, 200)
     /\ UNCHANGED <<emergencies, ambulances, http, lastAssign, others>>

\* res.json / the error handler
concRespond(p) ==
  /\ At(p, "done")
  /\ procs' = [procs EXCEPT ![p] = IdleProc]
  /\ UNCHANGED <<db, http, lastAssign, others>>

ConcAssignFindEmergency ==
  \E p \in Procs, u \in ConcUsers, e \in EmergencyIds, hospitalId \in HospitalIds \cup {Absent} :
    assignFindEmergency(p, u, e, "a1", hospitalId)

ConcAssignFindAmbulance == \E p \in Procs : assignFindAmbulance(p)

ConcAssignFindHospital == \E p \in Procs : assignFindHospital(p)

ConcAssignSaveEmergency == \E p \in Procs : assignSaveEmergency(p)

ConcAssignSaveAmbulance == \E p \in Procs : assignSaveAmbulance(p)

ConcAssignSaveHospital == \E p \in Procs : assignSaveHospital(p)

ConcStatusFindEmergency ==
  \E p \in Procs, u \in ConcUsers, e \in EmergencyIds :
    statusFindEmergency(p, u, e, "completed")

ConcStatusFindDriver == \E p \in Procs : statusFindDriver(p)

ConcStatusSave == \E p \in Procs : statusSave(p)

ConcStatusFindAmbulance == \E p \in Procs : statusFindAmbulance(p)

ConcStatusSaveAmbulance == \E p \in Procs : statusSaveAmbulance(p)

ConcStatusFindHospital == \E p \in Procs : statusFindHospital(p)

ConcStatusSaveHospital == \E p \in Procs : statusSaveHospital(p)

ConcRespond == \E p \in Procs : concRespond(p)

NextConc ==
  \/ ConcAssignFindEmergency
  \/ ConcAssignFindAmbulance
  \/ ConcAssignFindHospital
  \/ ConcAssignSaveEmergency
  \/ ConcAssignSaveAmbulance
  \/ ConcAssignSaveHospital
  \/ ConcStatusFindEmergency
  \/ ConcStatusFindDriver
  \/ ConcStatusSave
  \/ ConcStatusFindAmbulance
  \/ ConcStatusSaveAmbulance
  \/ ConcStatusFindHospital
  \/ ConcStatusSaveHospital
  \/ ConcRespond

SpecConc == InitConc /\ [][NextConc]_vars

\* ---- SpecDouble: assign requests only, two in flight, on two pending
\* emergencies and the available ambulance a1
InitDouble ==
  /\ emergencies = [e \in EmergencyIds |-> pendingEmergency]
  /\ ambulances =
       [a \in AmbulanceIds |->
          [status |-> "available", activeEmergency |-> Null, driver |-> "driver"]]
  /\ hospitals \in [HospitalIds -> Capacities]
  /\ http = Idle
  /\ lastAssign = [h \in HospitalIds |-> NoAssign]
  /\ procs = [p \in Procs |-> IdleProc]
  /\ feedback = [e \in EmergencyIds |-> <<>>]
  /\ rating = [h \in HospitalIds |-> NoRating]
  /\ lookup = NoLookup
  /\ side = NoSide
  /\ directory = NoDirectory
  /\ fleet = NoFleet
  /\ payments = [p \in PaymentIds |-> NoPayment]
  /\ writes = 0
  /\ emitted = {}
  /\ locations = [a \in AmbulanceIds |-> <<>>]

NextDouble ==
  \/ ConcAssignFindEmergency
  \/ ConcAssignFindAmbulance
  \/ ConcAssignFindHospital
  \/ ConcAssignSaveEmergency
  \/ ConcAssignSaveAmbulance
  \/ ConcAssignSaveHospital
  \/ ConcRespond

SpecDouble == InitDouble /\ [][NextDouble]_vars

\* ---- SpecRace: status requests only, for any of three statuses, two in flight
raceStatuses == {"completed", "cancelled", "pending"}

RaceStatusFindEmergency ==
  \E p \in Procs, u \in ConcUsers, e \in EmergencyIds, status \in raceStatuses :
    statusFindEmergency(p, u, e, status)

NextRace ==
  \/ RaceStatusFindEmergency
  \/ ConcStatusFindDriver
  \/ ConcStatusSave
  \/ ConcStatusFindAmbulance
  \/ ConcStatusSaveAmbulance
  \/ ConcStatusFindHospital
  \/ ConcStatusSaveHospital
  \/ ConcRespond

SpecRace == InitConc /\ [][NextRace]_vars

\* ------------------------------------- POST /api/emergencies/:id/feedback
MaxRatings == 7

\* req.body.rating: <<>> when the field is missing, <<n>> when it is n
ratingBodies == {<<>>} \cup {<<n>> : n \in 0 .. 6}

feedbackCodeAnyStatus(u, e, r) ==
  IF r = <<>> \/ r[1] = 0 \/ r[1] < 1 \/ r[1] > 5 THEN 400
  ELSE IF ~emergencies[e].exists THEN 404
  ELSE IF emergencies[e].patient # u /\ emergencies[e].requestedBy # u THEN 403
  ELSE 200

feedbackCode(u, e, r) ==
  IF r = <<>> \/ r[1] = 0 \/ r[1] < 1 \/ r[1] > 5 THEN 400
  ELSE IF ~emergencies[e].exists THEN 404
  ELSE IF emergencies[e].patient # u /\ emergencies[e].requestedBy # u THEN 403
  ELSE IF emergencies[e].status # "completed" THEN 400
  ELSE 200

newAvgOfTwo(doc, r) == dividedBy(plus(doc.average, r), 2)

\* "const newAvg = (average * count + rating) / (count + 1)"
newAvg(doc, r) == dividedBy(plus(times(doc.average, doc.count), r), doc.count + 1)

updateRating(doc, r) == [average |-> newAvg(doc, r), count |-> doc.count + 1]

addFeedback(u, e, r) ==
  LET code == feedbackCode(u, e, r)
      h == emergencies[e].hospital
  IN /\ IF code = 200
        THEN /\ feedback' = [feedback EXCEPT ![e] = r]
             /\ IF h # Null
                THEN rating' = [rating EXCEPT ![h] = updateRating(@, r[1])]
                ELSE UNCHANGED rating
        ELSE UNCHANGED <<feedback, rating>>
     /\ http' = [op |-> "feedback", id |-> e, body |-> [rating |-> r], code |-> code]
     /\ UNCHANGED <<db, lastAssign, procs, lookup, side, directory, fleet, payments, writes, emitted, locations>>

\* e1 went through its lifecycle with a1 and h1
completedEmergency ==
  [arrivedEmergency EXCEPT !.status = "completed",
                           !.timeline = Append(@, "emergency_completed")]

InitFeedback ==
  /\ emergencies = [e \in EmergencyIds |->
                      IF e = "e1" THEN completedEmergency ELSE pendingEmergency]
  /\ ambulances =
       [a \in AmbulanceIds |->
          [status |-> "available", activeEmergency |-> Null, driver |-> "driver"]]
  /\ hospitals \in [HospitalIds -> Capacities]
  /\ http = Idle
  /\ lastAssign = [h \in HospitalIds |-> NoAssign]
  /\ procs = [p \in Procs |-> IdleProc]
  /\ feedback = [e \in EmergencyIds |-> <<>>]
  /\ rating = [h \in HospitalIds |-> NoRating]
  /\ lookup = NoLookup
  /\ side = NoSide
  /\ directory = NoDirectory
  /\ fleet = NoFleet
  /\ payments = [p \in PaymentIds |-> NoPayment]
  /\ writes = 0
  /\ emitted = {}
  /\ locations = [a \in AmbulanceIds |-> <<>>]

\* a rating is taken while the hospital's count is below the bound
AddFeedback ==
  \E u \in Users, e \in EmergencyIds, r \in ratingBodies :
    /\ http = Idle
    /\ \A h \in HospitalIds : rating[h].count < MaxRatings
    /\ addFeedback(u, e, r)

NextFeedback ==
  \/ AddFeedback
  \/ Respond

SpecFeedback == InitFeedback /\ [][NextFeedback]_vars

\* ------------------------------------------------ GET /api/hospitals/nearby
MaxStore == 2
MaxGoogle == 2
MaxLimit == 3

\* hospital names, as strings of characters
Names == {<<"S", "t">>, <<"s", "t">>, <<"S", "T">>, <<"U", "n">>}

\* String.prototype.toLowerCase
lowerChar(c) ==
  CASE c = "S" -> "s"
    [] c = "T" -> "t"
    [] c = "U" -> "u"
    [] OTHER -> c

toLowerCase(name) == [i \in DOMAIN name |-> lowerChar(name[i])]

SeqsUpTo(S, n) == UNION {[1 .. k -> S] : k \in 0 .. n}

\* Hospital.findNearest: the active hospitals within the radius, nearest
\* first, cut by .limit(limit); store is that list before the cut
findNearest(store, limit) == SubSeq(store, 1, Min(limit, Len(store)))

dbEntry(name) == [source |-> "database", name |-> name]

googleEntry(name) == [source |-> "google", name |-> name]

dbEntries(names) == [i \in DOMAIN names |-> dbEntry(names[i])]

googleEntries(names) == [i \in DOMAIN names |-> googleEntry(names[i])]

\* "filter out hospitals that are already in our database"
filterGoogle(dbHospitals, googleHospitals) ==
  LET dbHospitalNames == {toLowerCase(dbHospitals[i]) : i \in DOMAIN dbHospitals}
      fresh(h) == toLowerCase(h) \notin dbHospitalNames
  IN SelectSeq(googleHospitals, fresh)

combineAll(dbHospitals, filteredGoogleHospitals, limit) ==
  dbEntries(dbHospitals) \o googleEntries(filteredGoogleHospitals)

\* "combine results": the database's, then the first limit - length of the rest
combine(dbHospitals, filteredGoogleHospitals, limit) ==
  dbEntries(dbHospitals)
    \o googleEntries(SubSeq(filteredGoogleHospitals, 1,
                            Min(limit - Len(dbHospitals), Len(filteredGoogleHospitals))))

nearbyResponseFailing(store, google, fails, q) ==
  IF fails
  THEN [code |-> 500, queried |-> TRUE]
  ELSE [code |-> 200, queried |-> FALSE, source |-> "database",
        data |-> dbEntries(findNearest(store, q.limit)), error |-> FALSE]

\* the response to a query q = [coordinates, limit]; queried: getNearbyHospitals
\* was called
nearbyResponse(store, google, fails, q) ==
  LET dbHospitals == findNearest(store, q.limit)
  IN IF ~q.coordinates
     THEN [code |-> 400, queried |-> FALSE]
     ELSE IF Len(dbHospitals) >= q.limit
     THEN [code |-> 200, queried |-> FALSE, source |-> "database",
           data |-> dbEntries(dbHospitals), error |-> FALSE]
     ELSE IF fails
     THEN [code |-> 200, queried |-> TRUE, source |-> "database",
           data |-> dbEntries(findNearest(store, q.limit)), error |-> TRUE]
     ELSE [code |-> 200, queried |-> TRUE, source |-> "combined",
           data |-> combine(dbHospitals, filterGoogle(dbHospitals, google), q.limit),
           error |-> FALSE]

\* the store, the provider's answer and the query are any within the bounds
InitNearby ==
  /\ emergencies = [e \in EmergencyIds |-> NoEmergency]
  /\ ambulances =
       [a \in AmbulanceIds |->
          [status |-> "available", activeEmergency |-> Null, driver |-> "driver"]]
  /\ hospitals \in [HospitalIds -> Capacities]
  /\ http = Idle
  /\ lastAssign = [h \in HospitalIds |-> NoAssign]
  /\ procs = [p \in Procs |-> IdleProc]
  /\ feedback = [e \in EmergencyIds |-> <<>>]
  /\ rating = [h \in HospitalIds |-> NoRating]
  /\ side = NoSide
  /\ directory = NoDirectory
  /\ fleet = NoFleet
  /\ payments = [p \in PaymentIds |-> NoPayment]
  /\ writes = 0
  /\ emitted = {}
  /\ locations = [a \in AmbulanceIds |-> <<>>]
  /\ \E store \in SeqsUpTo(Names, MaxStore), google \in SeqsUpTo(Names, MaxGoogle),
        fails \in BOOLEAN, coordinates \in BOOLEAN, limit \in 1 .. MaxLimit :
       lookup = [state |-> "asked", store |-> store, google |-> google, fails |-> fails,
                 query |-> [coordinates |-> coordinates, limit |-> limit]]

Nearby ==
  /\ lookup.state = "asked"
  /\ lookup' = [state |-> "answered", store |-> lookup.store, google |-> lookup.google,
                fails |-> lookup.fails, query |-> lookup.query,
                response |-> nearbyResponse(lookup.store, lookup.google,
                                            lookup.fails, lookup.query)]
  /\ UNCHANGED <<db, http, lastAssign, procs, feedback, rating, side, directory, fleet, payments, writes, emitted, locations>>

NextNearby == Nearby

SpecNearby == InitNearby /\ [][NextNearby]_vars

\* ------------------------------------- the external services of the assign
MaxServices == 3

tryCalculateRouteUncaught(ok) ==
  [threw |-> ~ok, route |-> IF ok THEN <<"route">> ELSE <<>>]

\* let route = {}; try { route = await calculateRoute(...) } catch { }
\* ok: the maps provider answers with a route
tryCalculateRoute(ok) == [threw |-> FALSE, route |-> IF ok THEN <<"route">> ELSE <<>>]

\* sendEmergencyConfirmation / notifyDriver: the promise resolves either way,
\* the message is delivered when the SMS provider accepts it
sendSms(to, e, ok) == IF ok THEN {<<e, to>>} ELSE {}

\* PUT /api/emergencies/:id/assign with the outcomes of its three calls out
assignServices(u, e, ambulanceId, hospitalId, routeOk, patientOk, driverOk) ==
  LET code == assignCode(u, e, ambulanceId, hospitalId)
      routed == tryCalculateRoute(routeOk)
  IN IF code = 200 /\ routed.threw
     THEN /\ http' = [op |-> "assign", id |-> e,
                      body |-> [ambulanceId |-> ambulanceId, hospitalId |-> hospitalId],
                      code |-> 500]
          /\ UNCHANGED <<db, lastAssign, side>>
     ELSE /\ assign(u, e, ambulanceId, hospitalId)
          /\ side' =
               IF code # 200 THEN side
               ELSE [route |->
                       [side.route EXCEPT
                          ![e] = IF routed.route # <<>> THEN routed.route ELSE @],
                     sms |->
                       side.sms
                         \cup (IF emergencies[e].patient \in Users
                               THEN sendSms("patient", e, patientOk) ELSE {})
                         \cup (IF ambulances[ambulanceId].driver \in Users
                               THEN sendSms("driver", e, driverOk) ELSE {})]

ServicesCreate == Creates(EmergencyIds, MaxServices)

ServicesAssign ==
  \E u \in Users, e \in EmergencyIds, ambulanceId \in AmbulanceIds,
     hospitalId \in HospitalIds \cup {Absent}, routeOk, patientOk, driverOk \in BOOLEAN :
    /\ http = Idle
    /\ assignCode(u, e, ambulanceId, hospitalId) = 200 => Room(MaxServices)
    /\ assignServices(u, e, ambulanceId, hospitalId, routeOk, patientOk, driverOk)
    /\ UNCHANGED <<procs, feedback, rating, lookup, directory, fleet, payments, writes, emitted, locations>>

ServicesPutStatus == PutsStatus(EmergencyIds, {"cancelled"}, MaxServices)

NextServices ==
  \/ ServicesCreate
  \/ ServicesAssign
  \/ ServicesPutStatus
  \/ Respond

SpecServices == Init /\ [][NextServices]_vars

\* ------------------------------------------- hospital create/update/delete
\* req.body.administrators: not sent, or a list of user ids
administratorBodies ==
  {[sent |-> FALSE, ids |-> {}]}
    \cup {[sent |-> TRUE, ids |-> ids] : ids \in SUBSET (StaffUsers \cup {NoSuchId})}

\* Hospital.countDocuments({ _id: { $ne: hospital._id }, administrators: adminId })
otherHospitals(dir, h, adminId) ==
  Cardinality({x \in StaffHospitals \ {h} :
                 dir.hospital[x].exists /\ adminId \in dir.hospital[x].administrators})

demoteAll(dir, h, ids) ==
  [u \in StaffUsers |-> IF u \in ids THEN "user" ELSE dir.role[u]]

\* "if (otherHospitals === 0) await User.findByIdAndUpdate(adminId, { role: 'user' })"
\* for each adminId of ids, an administrator list of hospital h
demote(dir, h, ids) ==
  [u \in StaffUsers |->
     IF u \in ids /\ otherHospitals(dir, h, u) = 0 THEN "user" ELSE dir.role[u]]

\* User.updateMany({ _id: { $in: ids } }, { role: 'hospital_admin' })
promote(roles, ids) == [u \in StaffUsers |-> IF u \in ids THEN "hospital_admin" ELSE roles[u]]

\* POST /api/hospitals; emailTaken: a hospital with the body's email exists
createHospitalCode(u, emailTaken) ==
  IF directory.role[u] # "admin" THEN 403
  ELSE IF emailTaken THEN 400
  ELSE 201

createHospital(u, h, body, emailTaken) ==
  LET code == createHospitalCode(u, emailTaken)
      ids == body.administrators.ids
  IN /\ directory' =
          IF code = 201
          THEN [role |-> promote(directory.role, ids),
                hospital |-> [directory.hospital EXCEPT
                                ![h] = [exists |-> TRUE, administrators |-> ids]]]
          ELSE directory
     /\ http' = [op |-> "createHospital", id |-> h, body |-> body, code |-> code]

\* PUT /api/hospitals/:id up to the update of the hospital
updateHospitalCode(u, h, body) ==
  LET hospital == directory.hospital[h]
      isAdmin == directory.role[u] = "admin"
      isHospitalAdmin == directory.role[u] = "hospital_admin" /\ u \in hospital.administrators
  IN IF ~hospital.exists THEN 404
     ELSE IF ~isAdmin /\ ~isHospitalAdmin THEN 403
     ELSE IF body.administrators.sent /\ ~isAdmin THEN 403
     ELSE IF body.administrators.sent /\ NoSuchId \in body.administrators.ids THEN 400
     ELSE 200

\* Hospital.findByIdAndUpdate(id, req.body, { runValidators: true }) throws
\* on a status outside the enum
updateRejected(body) == body.status # Absent /\ body.status \notin {"active", "inactive", "under_maintenance"}

updateHospital(u, h, body) ==
  LET code == updateHospitalCode(u, h, body)
      old == directory.hospital[h].administrators
      sent == body.administrators.sent
      new == IF sent THEN body.administrators.ids ELSE old
      removedAdmins == old \ new
      newAdmins == new \ old
      roles == IF sent THEN promote(demote(directory, h, removedAdmins), newAdmins)
               ELSE directory.role
  IN /\ directory' =
          IF code # 200 THEN directory
          ELSE [role |-> roles,
                hospital |->
                  IF updateRejected(body) THEN directory.hospital
                  ELSE [directory.hospital EXCEPT ![h].administrators = new]]
     /\ http' = [op |-> "updateHospital", id |-> h, body |-> body,
                 code |-> IF code = 200 /\ updateRejected(body) THEN 500 ELSE code]

\* DELETE /api/hospitals/:id
deleteHospitalCode(u, h) ==
  IF directory.role[u] # "admin" THEN 403
  ELSE IF ~directory.hospital[h].exists THEN 404
  ELSE 200

deleteHospital(u, h) ==
  LET code == deleteHospitalCode(u, h)
  IN /\ directory' =
          IF code = 200
          THEN [role |-> demote(directory, h, directory.hospital[h].administrators),
                hospital |-> [directory.hospital EXCEPT ![h] = NoHospital]]
          ELSE directory
     /\ http' = [op |-> "deleteHospital", id |-> h, code |-> code]

CreateHospital ==
  \E u \in StaffUsers, h \in StaffHospitals, administratorIds \in administratorBodies,
     emailTaken \in BOOLEAN :
    /\ http = Idle
    /\ ~directory.hospital[h].exists
    /\ emailTaken => \E x \in StaffHospitals : directory.hospital[x].exists
    /\ createHospital(u, h, [administrators |-> administratorIds], emailTaken)
    /\ UNCHANGED <<db, lastAssign, procs, feedback, rating, lookup, side, fleet, payments, writes, emitted, locations>>

UpdateHospital ==
  \E u \in StaffUsers, h \in StaffHospitals, administratorIds \in administratorBodies,
     status \in {Absent, "inactive", "bogus"} :
    /\ http = Idle
    /\ updateHospital(u, h, [administrators |-> administratorIds, status |-> status])
    /\ UNCHANGED <<db, lastAssign, procs, feedback, rating, lookup, side, fleet, payments, writes, emitted, locations>>

DeleteHospital ==
  \E u \in StaffUsers, h \in StaffHospitals :
    /\ http = Idle
    /\ deleteHospital(u, h)
    /\ UNCHANGED <<db, lastAssign, procs, feedback, rating, lookup, side, fleet, payments, writes, emitted, locations>>

NextHospitals ==
  \/ CreateHospital
  \/ UpdateHospital
  \/ DeleteHospital
  \/ Respond

SpecHospitals == Init /\ [][NextHospitals]_vars

\* ------------------------------------------------ ambulances and hospitals
MaxList == 2

\* the callers of the ambulance routes
FleetUsers == {"admin", "hadmin", "pat"}

\* { $push: { ambulances: ambulance._id } }
push(list, a) == Append(list, a)

\* { $pull: { ambulances: ambulance._id } }
pull(list, a) ==
  LET other(x) == x # a
  IN SelectSeq(list, other)

\* the hospital routes' user documents carry no hospital field
userHospital(u) == Absent

\* Hospital.findOne({ administrators: req.user._id })
administeredHospital(u) ==
  IF \E h \in HospitalIds : u \in administrators[h]
  THEN CHOOSE h \in HospitalIds : u \in administrators[h]
  ELSE Null

\* the driver checks shared by POST and PUT
driverCode(driverId) ==
  IF driverId = Absent THEN 200
  ELSE IF driverId \notin Users THEN 400
  ELSE IF role[driverId] # "driver" THEN 400
  ELSE 200

\* POST /api/ambulances; registrationTaken: an ambulance with the body's
\* registration number exists
createAmbulanceCode(u, body, registrationTaken) ==
  IF role[u] # "admin" /\ role[u] # "hospital_admin" THEN 403
  ELSE IF registrationTaken THEN 400
  ELSE IF body.hospital \notin {Absent, Null} /\ body.hospital \notin FleetHospitals THEN 400
  ELSE IF driverCode(body.driver) # 200 THEN 400
  ELSE 201

createAmbulance(u, a, body, registrationTaken) ==
  LET code == createAmbulanceCode(u, body, registrationTaken)
      hospitalId == body.hospital
  IN /\ fleet' =
          IF code # 201 THEN fleet
          ELSE [ambulance |->
                  [fleet.ambulance EXCEPT
                     ![a] = [exists |-> TRUE,
                             hospital |-> IF hospitalId \in FleetHospitals
                                          THEN hospitalId ELSE Null]],
                ambulances |->
                  [h \in FleetHospitals |->
                     IF h = hospitalId THEN push(fleet.ambulances[h], a)
                     ELSE fleet.ambulances[h]]]
     /\ http' = [op |-> "createAmbulance", user |-> u, id |-> a, body |-> body, code |-> code]

\* GET /api/ambulances: the ids returned
listAmbulancesCode(u) ==
  IF role[u] = "hospital_admin" /\ administeredHospital(u) = Null THEN 404 ELSE 200

listAmbulances(u) ==
  LET code == listAmbulancesCode(u)
      found == IF role[u] = "hospital_admin"
               THEN {a \in FleetAmbulances :
                       /\ fleet.ambulance[a].exists
                       /\ fleet.ambulance[a].hospital = administeredHospital(u)}
               ELSE {a \in FleetAmbulances : fleet.ambulance[a].exists}
  IN /\ http' = [op |-> "listAmbulances", user |-> u, code |-> code,
                 data |-> IF code = 200 THEN found ELSE {}]
     /\ UNCHANGED fleet

\* GET /api/ambulances/:id
getAmbulanceCode(u, a) ==
  IF a \notin FleetAmbulances THEN 404
  ELSE IF ~fleet.ambulance[a].exists THEN 404
  ELSE IF role[u] = "hospital_admin"
          /\ (fleet.ambulance[a].hospital = Null
                \/ fleet.ambulance[a].hospital # userHospital(u))
  THEN 403
  ELSE 200

getAmbulance(u, a) ==
  /\ http' = [op |-> "getAmbulance", user |-> u, id |-> a, code |-> getAmbulanceCode(u, a)]
  /\ UNCHANGED fleet

\* PUT /api/ambulances/:id up to the update of the ambulance
putAmbulanceCode(u, a, body) ==
  IF role[u] # "admin" /\ role[u] # "hospital_admin" THEN 403
  ELSE IF a \notin FleetAmbulances THEN 404
  ELSE IF ~fleet.ambulance[a].exists THEN 404
  ELSE IF role[u] = "hospital_admin"
          /\ (fleet.ambulance[a].hospital = Null
                \/ fleet.ambulance[a].hospital # userHospital(u))
  THEN 403
  ELSE IF driverCode(IF body.driver = Null THEN Absent ELSE body.driver) # 200 THEN 400
  ELSE IF body.hospital \notin {Absent, Null} /\ body.hospital \notin FleetHospitals THEN 400
  ELSE 200

\* Ambulance.findByIdAndUpdate(id, { ...req.body }, { runValidators: true })
\* throws on a status outside the enum
putRejected(body) == body.status # Absent /\ body.status \notin ambulanceStatuses

\* the two hospitals' lists after "if (req.body.hospital) { ... }"
movedLists(a, old, new) ==
  IF new \in {Absent, Null} THEN fleet.ambulances
  ELSE IF old # Null /\ old # new
  THEN [h \in FleetHospitals |->
          IF h = old THEN pull(fleet.ambulances[h], a)
          ELSE IF h = new THEN push(fleet.ambulances[h], a)
          ELSE fleet.ambulances[h]]
  ELSE IF old = Null
  THEN [fleet.ambulances EXCEPT ![new] = push(@, a)]
  ELSE fleet.ambulances

putAmbulance(u, a, body) ==
  LET code == putAmbulanceCode(u, a, body)
  IN /\ fleet' =
          IF code # 200 THEN fleet
          ELSE [ambulance |->
                  IF putRejected(body) \/ body.hospital = Absent THEN fleet.ambulance
                  ELSE [fleet.ambulance EXCEPT ![a].hospital = body.hospital],
                ambulances |-> movedLists(a, fleet.ambulance[a].hospital, body.hospital)]
     /\ http' = [op |-> "putAmbulance", user |-> u, id |-> a, body |-> body,
                 code |-> IF code = 200 /\ putRejected(body) THEN 500 ELSE code]

\* DELETE /api/ambulances/:id
deleteAmbulanceCode(u, a) ==
  IF role[u] # "admin" THEN 403
  ELSE IF a \notin FleetAmbulances THEN 404
  ELSE IF ~fleet.ambulance[a].exists THEN 404
  ELSE 200

deleteAmbulance(u, a) ==
  LET code == deleteAmbulanceCode(u, a)
      old == IF code = 200 THEN fleet.ambulance[a].hospital ELSE Null
  IN /\ fleet' =
          IF code # 200 THEN fleet
          ELSE [ambulance |-> [fleet.ambulance EXCEPT ![a] = NoAmbulance],
                ambulances |->
                  [h \in FleetHospitals |->
                     IF h = old THEN pull(fleet.ambulances[h], a)
                     ELSE fleet.ambulances[h]]]
     /\ http' = [op |-> "deleteAmbulance", user |-> u, id |-> a, code |-> code]

\* the lists have room for one more id
ListRoom == \A h \in FleetHospitals : Len(fleet.ambulances[h]) < MaxList

fleetFrame == UNCHANGED <<db, lastAssign, procs, feedback, rating, lookup, side, directory, payments, writes, emitted, locations>>

CreateAmbulance ==
  \E u \in FleetUsers, a \in FleetAmbulances,
     hospitalId \in FleetHospitals \cup {Absent, NoSuchId}, driverId \in {Absent, "pat"},
     registrationTaken \in BOOLEAN :
    /\ http = Idle
    /\ ListRoom
    /\ ~fleet.ambulance[a].exists
    /\ registrationTaken => \E x \in FleetAmbulances : fleet.ambulance[x].exists
    /\ createAmbulance(u, a, [hospital |-> hospitalId, driver |-> driverId], registrationTaken)
    /\ fleetFrame

ListAmbulances == \E u \in FleetUsers : http = Idle /\ listAmbulances(u) /\ fleetFrame

GetAmbulance ==
  \E u \in FleetUsers, a \in FleetAmbulances \cup {NoSuchId} :
    http = Idle /\ getAmbulance(u, a) /\ fleetFrame

PutAmbulance ==
  \E u \in FleetUsers, a \in FleetAmbulances \cup {NoSuchId},
     hospitalId \in FleetHospitals \cup {Absent, Null, NoSuchId},
     driverId \in {Absent, "pat"}, status \in {Absent, "bogus"} :
    /\ http = Idle
    /\ ListRoom
    /\ putAmbulance(u, a, [hospital |-> hospitalId, driver |-> driverId, status |-> status])
    /\ fleetFrame

DeleteAmbulance ==
  \E u \in FleetUsers, a \in FleetAmbulances \cup {NoSuchId} :
    http = Idle /\ deleteAmbulance(u, a) /\ fleetFrame

NextFleet ==
  \/ CreateAmbulance
  \/ ListAmbulances
  \/ GetAmbulance
  \/ PutAmbulance
  \/ DeleteAmbulance
  \/ Respond

SpecFleet == Init /\ [][NextFleet]_vars

\* ------------------------------------------------------------- payments
MaxAmount == 2
MaxRefunds == 2

paymentStatuses == {"pending", "processing", "completed", "refunded", "failed", "cancelled"}

\* req.body.amount: missing, or a number
amountBodies == {<<>>} \cup {<<n>> : n \in 0 .. MaxAmount + 1}

\* POST /api/payments
createPaymentCode(u, body) ==
  IF role[u] # "admin" THEN 403
  ELSE IF body.emergency = Absent \/ body.patient = Absent
          \/ body.amount = <<>> \/ body.amount[1] = 0
  THEN 400
  ELSE IF body.emergency \notin EmergencyIds THEN 404
  ELSE IF ~emergencies[body.emergency].exists THEN 404
  ELSE IF body.patient \notin Users THEN 404
  ELSE 201

createPayment(u, p, body) ==
  LET code == createPaymentCode(u, body)
  IN /\ payments' =
          IF code = 201
          THEN [payments EXCEPT
                  ![p] = [exists |-> TRUE, amount |-> body.amount[1], status |-> "pending",
                          refund |-> <<>>, refunds |-> <<>>]]
          ELSE payments
     /\ http' = [op |-> "createPayment", user |-> u, id |-> p, body |-> body, code |-> code]

\* PUT /api/payments/:id/status
paymentStatusCode(u, p, status) ==
  IF role[u] # "admin" THEN 403
  ELSE IF status = Absent THEN 400
  ELSE IF status \notin paymentStatuses THEN 400
  ELSE IF p \notin PaymentIds THEN 404
  ELSE IF ~payments[p].exists THEN 404
  ELSE 200

updatePaymentStatus(u, p, status) ==
  LET code == paymentStatusCode(u, p, status)
  IN /\ payments' = IF code = 200 THEN [payments EXCEPT ![p].status = status] ELSE payments
     /\ http' = [op |-> "paymentStatus", user |-> u, id |-> p,
                 body |-> [status |-> status], code |-> code]

refundCodeAnyStatus(u, p, amount) ==
  IF role[u] # "admin" THEN 403
  ELSE IF p \notin PaymentIds THEN 404
  ELSE IF ~payments[p].exists THEN 404
  ELSE IF amount = <<>> \/ amount[1] = 0 \/ amount[1] <= 0 \/ amount[1] > payments[p].amount
  THEN 400
  ELSE 200

\* POST /api/payments/:id/refund
refundCode(u, p, amount) ==
  IF role[u] # "admin" THEN 403
  ELSE IF p \notin PaymentIds THEN 404
  ELSE IF ~payments[p].exists THEN 404
  ELSE IF payments[p].status # "completed" THEN 400
  ELSE IF amount = <<>> \/ amount[1] = 0 \/ amount[1] <= 0 \/ amount[1] > payments[p].amount
  THEN 400
  ELSE 200

processRefund(u, p, amount) ==
  LET code == refundCode(u, p, amount)
  IN /\ payments' =
          IF code = 200
          THEN [payments EXCEPT
                  ![p].refund = amount,
                  ![p].status = IF amount[1] = payments[p].amount
                                THEN "refunded" ELSE "completed",
                  ![p].refunds = Append(@, amount[1])]
          ELSE payments
     /\ http' = [op |-> "refund", user |-> u, id |-> p,
                 body |-> [amount |-> amount], code |-> code]

paymentsFrame ==
  UNCHANGED <<db, lastAssign, procs, feedback, rating, lookup, side, directory, fleet,
              writes, emitted, locations>>

PaymentUsers == {"admin", "pat"}

CreatePayment ==
  \E u \in PaymentUsers, p \in PaymentIds, emergency \in {"e1", NoSuchId, Absent},
     patient \in {"pat", NoSuchId}, amount \in amountBodies :
    /\ http = Idle
    /\ ~payments[p].exists
    /\ amount # <<>> => amount[1] <= MaxAmount
    /\ createPayment(u, p, [emergency |-> emergency, patient |-> patient, amount |-> amount])
    /\ paymentsFrame

UpdatePaymentStatus ==
  \E u \in PaymentUsers, p \in PaymentIds \cup {NoSuchId},
     status \in paymentStatuses \cup {Absent, "bogus"} :
    /\ http = Idle
    /\ updatePaymentStatus(u, p, status)
    /\ paymentsFrame

ProcessRefund ==
  \E u \in PaymentUsers, p \in PaymentIds \cup {NoSuchId}, amount \in amountBodies :
    /\ http = Idle
    /\ p \in PaymentIds => Len(payments[p].refunds) < MaxRefunds
    /\ processRefund(u, p, amount)
    /\ paymentsFrame

NextPayments ==
  \/ CreatePayment
  \/ UpdatePaymentStatus
  \/ ProcessRefund
  \/ Respond

SpecPayments == InitFeedback /\ [][NextPayments]_vars

\* ------------------------------------------------------------- the routers
MaxWrites == 2

Routers == {"auth", "users", "ambulances", "emergencies", "hospitals", "payments"}

Route(method, path, protected, mutates) ==
  [method |-> method, path |-> path, protect |-> protected, mutates |-> mutates]

\* the routes of each router, in the order of their registration
routes(router) ==
  CASE router = "auth" ->
         << Route("POST", <<"register">>, FALSE, TRUE),
            Route("POST", <<"login">>, FALSE, FALSE),
            Route("POST", <<"verify-otp">>, FALSE, TRUE),
            Route("POST", <<"resend-otp">>, FALSE, TRUE),
            Route("POST", <<"forgot-password">>, FALSE, TRUE),
            Route("POST", <<"reset-password">>, FALSE, TRUE),
            Route("GET", <<"profile">>, TRUE, FALSE),
            Route("PUT", <<"profile">>, TRUE, TRUE) >>
    [] router = "users" ->
         << Route("GET", <<>>, TRUE, FALSE),
            Route("GET", <<"drivers">>, TRUE, FALSE),
            Route("GET", <<":id">>, TRUE, FALSE),
            Route("PUT", <<":id">>, TRUE, TRUE),
            Route("DELETE", <<":id">>, TRUE, TRUE) >>
    [] router = "ambulances" ->
         << Route("POST", <<>>, TRUE, TRUE),
            Route("GET", <<>>, TRUE, FALSE),
            Route("GET", <<":id">>, TRUE, FALSE),
            Route("PUT", <<":id">>, TRUE, TRUE),
            Route("DELETE", <<":id">>, TRUE, TRUE),
            Route("PUT", <<":id", "location">>, TRUE, TRUE),
            Route("GET", <<"nearest">>, TRUE, FALSE),
            Route("PUT", <<":id", "status">>, TRUE, TRUE) >>
    [] router = "emergencies" ->
         << Route("POST", <<>>, TRUE, TRUE),
            Route("GET", <<>>, TRUE, FALSE),
            Route("GET", <<":id">>, TRUE, FALSE),
            Route("PUT", <<":id", "assign">>, TRUE, TRUE),
            Route("PUT", <<":id", "status">>, TRUE, TRUE),
            Route("POST", <<":id", "feedback">>, TRUE, TRUE) >>
    [] router = "hospitals" ->
         << Route("POST", <<>>, TRUE, TRUE),
            Route("GET", <<>>, FALSE, FALSE),
            Route("GET", <<":id">>, FALSE, FALSE),
            Route("PUT", <<":id">>, TRUE, TRUE),
            Route("DELETE", <<":id">>, TRUE, TRUE),
            Route("GET", <<"nearby">>, FALSE, FALSE),
            Route("PUT", <<":id", "capacity">>, TRUE, TRUE) >>
    [] router = "payments" ->
         << Route("POST", <<>>, TRUE, TRUE),
            Route("GET", <<>>, TRUE, FALSE),
            Route("GET", <<":id">>, TRUE, FALSE),
            Route("PUT", <<":id", "status">>, TRUE, TRUE),
            Route("POST", <<":id", "refund">>, TRUE, TRUE),
            Route("GET", <<"summary">>, TRUE, FALSE) >>

\* a path segment of a route that takes any value
isParam(segment) == segment = ":id"

\* the route's path matches the request's, segment by segment
matches(route, method, path) ==
  /\ route.method = method
  /\ Len(route.path) = Len(path)
  /\ \A i \in DOMAIN path : isParam(route.path[i]) \/ route.path[i] = path[i]

\* the first route registered that matches, 0 when none does
matched(router, method, path) ==
  LET hits == {i \in DOMAIN routes(router) : matches(routes(router)[i], method, path)}
  IN IF hits = {} THEN 0 ELSE CHOOSE i \in hits : \A j \in hits : i <= j

\* what a request carries in its Authorization header
credentials == {"none", "notBearer", "badToken", "unknownUser", "valid"}

protectOpen(credential) == 200

\* protect: 200 stands for next()
protect(credential) ==
  IF credential = "none" \/ credential = "notBearer" THEN 401
  ELSE IF credential = "badToken" THEN 401
  ELSE IF credential = "unknownUser" THEN 401
  ELSE 200

\* a request through the router; accepted: the handler's own checks pass
route(router, method, path, credential, accepted) ==
  LET i == matched(router, method, path)
      r == routes(router)[i]
      code == IF i = 0 THEN 404
              ELSE IF r.protect /\ protect(credential) # 200 THEN protect(credential)
              ELSE IF accepted THEN 200
              ELSE 400
  IN /\ writes' = IF code = 200 /\ r.mutates THEN writes + 1 ELSE writes
     /\ http' = [op |-> "route", router |-> router, method |-> method, path |-> path,
                 handler |-> IF i = 0 THEN <<"none">> ELSE r.path,
                 credential |-> credential, code |-> code]

\* the paths requested: x1 is an id
paths ==
  {<<>>, <<"x1">>, <<"nearby">>, <<"nearest">>, <<"summary">>, <<"drivers">>, <<"profile">>,
   <<"register">>, <<"login">>, <<"verify-otp">>, <<"resend-otp">>, <<"forgot-password">>,
   <<"reset-password">>, <<"x1", "status">>, <<"x1", "assign">>, <<"x1", "feedback">>,
   <<"x1", "capacity">>, <<"x1", "location">>, <<"x1", "refund">>}

Request ==
  \E router \in Routers, method \in {"GET", "POST", "PUT", "DELETE"}, path \in paths,
     credential \in credentials, accepted \in BOOLEAN :
    /\ http = Idle
    /\ writes < MaxWrites
    /\ route(router, method, path, credential, accepted)
    /\ UNCHANGED <<db, lastAssign, procs, feedback, rating, lookup, side, directory, fleet,
                   payments, emitted, locations>>

NextRoutes == Request \/ Respond

SpecRoutes == Init /\ [][NextRoutes]_vars

\* ------------------------------------------ PUT /api/hospitals/:id/capacity
MaxCapacity == 2

\* req.body.total, req.body.available: undefined, or a number
capacityBodies == {<<>>} \cup {<<n>> : n \in -1 .. MaxCapacity}

capacityCode(u, h, total, available) ==
  IF total = <<>> /\ available = <<>> THEN 400
  ELSE IF h \notin HospitalIds THEN 404
  ELSE IF role[u] # "admin" /\ ~(role[u] = "hospital_admin" /\ u \in administrators[h]) THEN 403
  ELSE 200

\* the capacity written: the values given, available cut down to total
newCapacity(doc, total, available) ==
  LET t == IF total # <<>> THEN total[1] ELSE doc.total
      a == IF available # <<>> THEN available[1] ELSE doc.available
  IN [total |-> t, available |-> IF a > t THEN t ELSE a]

putCapacity(u, h, total, available) ==
  LET code == capacityCode(u, h, total, available)
  IN /\ hospitals' =
          IF code = 200
          THEN [hospitals EXCEPT ![h] = newCapacity(@, total, available)]
          ELSE hospitals
     /\ http' = [op |-> "capacity", user |-> u, id |-> h,
                 body |-> [total |-> total, available |-> available], code |-> code]
     /\ UNCHANGED <<emergencies, ambulances, lastAssign>>

PutCapacity ==
  \E u \in Users, h \in HospitalIds \cup {NoSuchId}, total, available \in capacityBodies :
    /\ http = Idle
    /\ putCapacity(u, h, total, available)
    /\ UNCHANGED <<procs, others>>

NextCapacity == PutCapacity \/ Respond

SpecCapacity == Init /\ [][NextCapacity]_vars

\* ---- the events the controllers broadcast: server index, emergency and
\* ambulance routes
\* app.use(...) of the server index ahead of the routers
middleware == <<"cors", "express.json", "express.urlencoded">>

\* req.io in a controller: defined when a middleware ahead of the routers
\* attached the io server to the request
reqIo == \E i \in 1..Len(middleware) : middleware[i] = "io"

\* if (req.io) { req.io.emit(event, payload) }
emit(event, id, status) ==
  IF reqIo
  THEN emitted \cup {[event |-> event, id |-> id, status |-> status]}
  ELSE emitted

\* lat and lng of a request body: <<>> when missing or no number
coordinates == {<<>>, <<0>>, <<1>>}

\* PUT /api/ambulances/:id/location: driver, ambulanceLocationRules, handler
locationCode(u, a, lat, lng) ==
  IF role[u] # "driver" THEN 403
  ELSE IF lat = <<>> \/ lng = <<>> THEN 400
  ELSE IF a = NoSuchId THEN 404
  ELSE IF ambulances[a].driver = Null THEN 500
  ELSE IF ambulances[a].driver # u THEN 403
  ELSE 200

putLocation(u, a, lat, lng) ==
  LET code == locationCode(u, a, lat, lng)
  IN /\ IF code = 200
        THEN /\ locations' = [locations EXCEPT ![a] = lat \o lng]
             /\ emitted' = emit("ambulance-location-updated", a, Absent)
        ELSE UNCHANGED <<locations, emitted>>
     /\ UNCHANGED <<db, lastAssign>>
     /\ http' = [op |-> "location", id |-> a,
                 body |-> [lat |-> lat, lng |-> lng], code |-> code]

relayFrame ==
  UNCHANGED <<procs, feedback, rating, lookup, side, directory, fleet, payments, writes>>

\* POST /api/emergencies with its broadcast
RelayCreate ==
  \E u \in Users, patientArg \in {"pat", NoSuchId}, e \in EmergencyIds :
    /\ http = Idle
    /\ NextId(e)
    /\ createEmergencyCode(u, patientArg) = 201 => Room(MaxTimeline)
    /\ createEmergency(u, patientArg, e)
    /\ emitted' = IF createEmergencyCode(u, patientArg) = 201
                  THEN emit("new-emergency", e, Absent)
                  ELSE emitted
    /\ UNCHANGED locations
    /\ relayFrame

\* PUT /api/emergencies/:id/status with its broadcast
RelayStatus ==
  \E u \in Users, e \in EmergencyIds, status \in validStatuses \cup {"bogus", Absent} :
    /\ http = Idle
    /\ updateStatusCode(u, e, status) = 200 => Room(MaxTimeline)
    /\ putStatus(u, e, status)
    /\ emitted' = IF updateStatusCode(u, e, status) = 200
                  THEN emit("emergency-status-updated", e, status)
                  ELSE emitted
    /\ UNCHANGED locations
    /\ relayFrame

RelayLocation ==
  \E u \in Users, a \in AmbulanceIds \cup {NoSuchId}, lat, lng \in coordinates :
    /\ http = Idle
    /\ putLocation(u, a, lat, lng)
    /\ relayFrame

NextRelay == RelayCreate \/ RelayStatus \/ RelayLocation \/ Respond

SpecRelay == Init /\ [][NextRelay]_vars

\* =================================================================== claims
\* the transition table of the lifecycle: (current status, next status)
Edge(cur, next) ==
  \/ next = "assigned" /\ cur = "pending"
  \/ next = "en_route" /\ cur = "assigned"
  \/ next = "arrived_at_patient" /\ cur \in {"assigned", "en_route"}
  \/ next = "transporting" /\ cur = "arrived_at_patient"
  \/ next = "arrived_at_hospital" /\ cur = "transporting"
  \/ next = "completed" /\ cur = "arrived_at_hospital"
  \/ next = "cancelled" /\ cur # "completed"

Answered(op) == http.op = op

Answers(op) == http'.op = op

\* C1: every change of an emergency's status follows an edge of the
\* transition table, and an assign or updateStatus request for a pair
\* (current, next) that is no edge fails and leaves the status unchanged.
C1_StatusFollowsTransitionTable ==
  [][/\ \A e \in EmergencyIds :
          (emergencies[e].exists /\ emergencies'[e].status # emergencies[e].status)
            => Edge(emergencies[e].status, emergencies'[e].status)
     /\ (/\ Answers("status")
         /\ http'.body.status \in validStatuses
         /\ emergencies[http'.id].exists
         /\ ~Edge(emergencies[http'.id].status, http'.body.status))
          => (/\ http'.code # 200
              /\ emergencies'[http'.id].status = emergencies[http'.id].status)
     /\ (/\ Answers("assign")
         /\ emergencies[http'.id].exists
         /\ ~Edge(emergencies[http'.id].status, "assigned"))
          => (/\ http'.code # 200
              /\ emergencies'[http'.id].status = emergencies[http'.id].status)
    ]_vars

\* C2: assign succeeds only when the emergency is pending; in any other
\* status the request fails and emergency, ambulance and hospital are unchanged.
C2_AssignOnlyWhenPending ==
  [][(/\ Answers("assign")
      /\ emergencies[http'.id].exists
      /\ emergencies[http'.id].status # "pending")
       => (http'.code # 200 /\ UNCHANGED db)
    ]_vars

\* C3: assign fails when the ambulance is not available or has no driver, and
\* when the emergency, the ambulance or the named hospital is absent (404 is
\* answered only for an absent document, always for an absent emergency, and
\* for an absent ambulance or hospital unless the caller is refused with 403);
\* a failed assign leaves emergencies, ambulances and hospitals as they were.
C3_FailedAssignChangesNothing ==
  [][Answers("assign") =>
       LET e == http'.id
           a == http'.body.ambulanceId
           h == http'.body.hospitalId
           noEmergency == ~emergencies[e].exists
           noAmbulance == a \notin AmbulanceIds
           noHospital == h # Absent /\ h \notin HospitalIds
       IN /\ (a \in AmbulanceIds /\ ambulances[a].status # "available") => http'.code # 200
          /\ (a \in AmbulanceIds /\ ambulances[a].driver = Null) => http'.code # 200
          /\ (noEmergency \/ noAmbulance \/ noHospital) => http'.code # 200
          /\ (noEmergency /\ a # Absent) => http'.code = 404
          /\ (~noEmergency /\ noAmbulance /\ a # Absent) => http'.code \in {403, 404}
          /\ (/\ ~noEmergency /\ noHospital /\ a \in AmbulanceIds
              /\ ambulances[a].status = "available" /\ ambulances[a].driver # Null)
               => http'.code \in {403, 404}
          /\ http'.code = 404 => (noEmergency \/ noAmbulance \/ noHospital)
          /\ http'.code # 200 => UNCHANGED db
    ]_vars

C3_Witness ==
  /\ Answered("assign")
  /\ http.code = 400
  /\ http.body.ambulanceId = "a1"
  /\ emergencies[http.id].exists
  /\ emergencies[http.id].status = "pending"
  /\ ambulances["a1"].status = "busy"

\* C4: a successful assign of ambulance A (and hospital H) to emergency E
\* leaves E assigned to A (and H) with exactly one ambulance_assigned entry
\* appended, A busy with activeEmergency E, and H.available one lower
\* (not below 0); nothing else changes.
C4_AssignEffects ==
  [][(Answers("assign") /\ http'.code = 200) =>
       LET e == http'.id
           a == http'.body.ambulanceId
           h == http'.body.hospitalId
           old == emergencies[e]
           new == emergencies'[e]
       IN /\ new.status = "assigned"
          /\ new.ambulance = a
          /\ new.hospital = IF h # Absent THEN h ELSE old.hospital
          /\ Len(new.timeline) = Len(old.timeline) + 1
          /\ SubSeq(new.timeline, 1, Len(old.timeline)) = old.timeline
          /\ new.timeline[Len(new.timeline)] = "ambulance_assigned"
          /\ new.patient = old.patient /\ new.requestedBy = old.requestedBy
          /\ ambulances'[a].status = "busy"
          /\ ambulances'[a].activeEmergency = e
          /\ ambulances'[a].driver = ambulances[a].driver
          /\ \A x \in EmergencyIds \ {e} : emergencies'[x] = emergencies[x]
          /\ \A x \in AmbulanceIds \ {a} : ambulances'[x] = ambulances[x]
          /\ \A x \in HospitalIds :
               /\ hospitals'[x].total = hospitals[x].total
               /\ hospitals'[x].available =
                    IF x # h THEN hospitals[x].available
                    ELSE IF hospitals[x].available >= 1 THEN hospitals[x].available - 1
                    ELSE 0
    ]_vars

C4_Witness ==
  /\ Answered("assign")
  /\ http.code = 200
  /\ http.body.hospitalId = "h1"
  /\ emergencies[http.id].status = "assigned"
  /\ ambulances[http.body.ambulanceId].activeEmergency = http.id

\* C5: right after a successful updateStatus to completed or cancelled on an
\* emergency that references an ambulance, that ambulance is available and
\* its activeEmergency is null.
C5_TerminalStatusReleasesAmbulance ==
  [][(/\ Answers("status")
      /\ http'.code = 200
      /\ http'.body.status \in {"completed", "cancelled"}
      /\ emergencies[http'.id].ambulance # Null)
       => LET a == emergencies[http'.id].ambulance
          IN /\ emergencies'[http'.id].ambulance = a
             /\ ambulances'[a].status = "available"
             /\ ambulances'[a].activeEmergency = Null
    ]_vars

C5_Witness ==
  /\ Answered("status")
  /\ http.code = 200
  /\ http.body.status = "completed"
  /\ emergencies[http.id].ambulance = "a1"
  /\ ambulances["a1"].status = "available"

\* C6: for every hospital 0 <= available <= total, in every state that any
\* sequence and any interleaving of assign and updateStatus(completed)
\* requests reaches.
C6_CapacityWithinBounds ==
  \A h \in HospitalIds :
    /\ 0 <= hospitals[h].available
    /\ hospitals[h].available <= hospitals[h].total

\* two completions of the same emergency have both restored the capacity
C6_Witness ==
  /\ \A p \in Procs : procs[p].pc = "done" /\ procs[p].op = "status" /\ procs[p].code = 200
  /\ procs["p1"].id = procs["p2"].id
  /\ hospitals["h1"].available = hospitals["h1"].total

C8_BusyIffActiveEmergency ==
  http = Idle =>
    \A a \in AmbulanceIds :
      ambulances[a].status = "busy" <=> ambulances[a].activeEmergency # Null

\* C9: no ambulance is the referenced ambulance of two different emergencies
\* that are both in a non-terminal status after assignment.
C9_OneActiveEmergencyPerAmbulance ==
  LET active == {"assigned", "en_route", "arrived_at_patient",
                 "transporting", "arrived_at_hospital"}
  IN \A e1 \in EmergencyIds, e2 \in EmergencyIds :
       (/\ e1 # e2
        /\ emergencies[e1].exists /\ emergencies[e2].exists
        /\ emergencies[e1].status \in active /\ emergencies[e2].status \in active
        /\ emergencies[e1].ambulance # Null)
         => emergencies[e1].ambulance # emergencies[e2].ambulance

\* C10: an emergency's status becomes assigned only by a request of an admin
\* or of a hospital_admin who administers the target hospital, whichever
\* endpoint the request goes to.
C10_OnlyDispatchersAssign ==
  [][\A u \in Users, e \in EmergencyIds :
       (/\ emergencies[e].exists
        /\ emergencies[e].status # "assigned"
        /\ emergencies'[e].status = "assigned"
        /\ \/ \E a \in AmbulanceIds, h \in HospitalIds \cup {Absent} : assign(u, e, a, h)
           \/ putStatus(u, e, "assigned"))
         => \/ role[u] = "admin"
            \/ /\ role[u] = "hospital_admin"
               /\ emergencies'[e].hospital # Null
               /\ u \in administrators[emergencies'[e].hospital]
    ]_vars

C12_TimelineAppendOnly ==
  [][\A e \in EmergencyIds :
       LET old == emergencies[e].timeline
           new == emergencies'[e].timeline
           appends == /\ http'.op \in {"assign", "status"}
                      /\ http'.id = e
                      /\ http'.code = 200
       IN IF ~emergencies[e].exists
          THEN emergencies'[e].exists => new = <<"emergency_requested">>
          ELSE IF appends
          THEN /\ Len(new) = Len(old) + 1
               /\ SubSeq(new, 1, Len(old)) = old
          ELSE new = old
    ]_vars

C12_Witness ==
  \E e \in EmergencyIds :
    /\ Answered("status")
    /\ http.id = e
    /\ http.code = 200
    /\ Len(emergencies[e].timeline) = 3
    /\ emergencies[e].timeline[1] = "emergency_requested"
    /\ emergencies[e].timeline[2] = "ambulance_assigned"

\* C13: addFeedback succeeds only on a completed emergency, for its patient
\* or requester, with a rating in 1..5; every other request fails, and a
\* failed request changes neither the emergency's feedback nor the
\* hospital's rating average and count.
C13_FeedbackPreconditions ==
  [][Answers("feedback") =>
       LET e == http'.id
           r == http'.body.rating
           legal == /\ emergencies[e].exists
                    /\ emergencies[e].status = "completed"
                    /\ r # <<>>
                    /\ r[1] \in 1 .. 5
       IN /\ \A u \in Users :
               addFeedback(u, e, r) =>
                 (http'.code = 200 <=>
                    (legal /\ u \in {emergencies[e].patient, emergencies[e].requestedBy}))
          /\ http'.code # 200 => (feedback' = feedback /\ rating' = rating)
    ]_vars

C13_Witness ==
  /\ Answered("feedback")
  /\ http.code = 403
  /\ http.id = "e1"
  /\ http.body.rating = <<5>>
  /\ emergencies["e1"].status = "completed"
  /\ feedback["e1"] = <<4>>
  /\ rating["h1"].count = 1

\* a successful feedback request on an emergency that references a hospital
RatesHospital ==
  /\ Answers("feedback")
  /\ http'.code = 200
  /\ emergencies[http'.id].hospital # Null

\* the distance allowed between newAverage * newCount and
\* oldAverage * oldCount + r, in units of 2^-52
Tolerance == <<0, 0, 2^6>>

Looked == lookup.state = "answered" /\ lookup.query.coordinates

\* what the store returns for the lookup's limit
Internal == SubSeq(lookup.store, 1, Min(lookup.query.limit, Len(lookup.store)))

\* C15: a nearby lookup with limit L asks the maps provider iff the store
\* returns fewer than L hospitals; the response holds the store's hospitals
\* first, in their order, then hospitals of the provider, at most L in all.
C15_InternalFirstUpToLimit ==
  Looked =>
    LET r == lookup.response
        L == lookup.query.limit
    IN /\ r.code = 200
       /\ r.queried <=> Len(Internal) < L
       /\ Len(r.data) <= L
       /\ Len(r.data) >= Len(Internal)
       /\ \A i \in 1 .. Len(Internal) : r.data[i] = dbEntry(Internal[i])
       /\ \A i \in Len(Internal) + 1 .. Len(r.data) :
            /\ r.data[i].source = "google"
            /\ \E j \in DOMAIN lookup.google : lookup.google[j] = r.data[i].name

\* the provider had more fresh hospitals than the limit left room for
C15_Witness ==
  /\ Looked
  /\ lookup.response.queried
  /\ ~lookup.fails
  /\ Len(Internal) = 1
  /\ Len(lookup.response.data) = lookup.query.limit
  /\ lookup.response.data[lookup.query.limit].source = "google"
  /\ Len(filterGoogle(Internal, lookup.google)) > lookup.query.limit - 1

Distinct(names) == \A i, j \in DOMAIN names : i # j => names[i] # names[j]

\* C16: when the store's hospitals have pairwise distinct names, no two
\* entries of the response have names that are equal ignoring case.
C16_NoTwoNamesEqualIgnoringCase ==
  (Looked /\ lookup.response.code = 200 /\ Distinct(Internal)) =>
    \A i, j \in DOMAIN lookup.response.data :
      i # j =>
        toLowerCase(lookup.response.data[i].name)
          # toLowerCase(lookup.response.data[j].name)

\* C17: when the maps provider fails, the lookup is still answered 200 with
\* exactly the store's hospitals (at most the limit) and, where the provider
\* was asked, with the error annotation.
C17_ProviderFailureIsNotAnError ==
  (Looked /\ lookup.fails) =>
    /\ lookup.response.code = 200
    /\ lookup.response.data = dbEntries(Internal)
    /\ Len(lookup.response.data) <= lookup.query.limit
    /\ lookup.response.queried => lookup.response.error

\* the provider was asked and failed, and the store had a hospital to return
C17_Witness ==
  /\ Looked
  /\ lookup.fails
  /\ lookup.response.queried
  /\ lookup.response.error
  /\ Len(lookup.response.data) = 1
  /\ lookup.google # <<>>

Saves(p) == At(p, "statusSave") /\ procs'[p].pc # "statusSave"

Listed(h) == directory.hospital[h].administrators \cap StaffUsers

\* C20 (first part): a successful delete of a hospital, or update of its
\* administrators, sets role user on each removed administrator who is
\* listed by no other hospital and leaves the role of the others removed.
C20_RemovedAdministratorsDemoted ==
  [][((Answers("deleteHospital") \/ Answers("updateHospital")) /\ http'.code = 200) =>
       LET h == http'.id
           kept == IF directory'.hospital[h].exists
                   THEN directory'.hospital[h].administrators ELSE {}
       IN \A u \in Listed(h) \ kept :
            directory'.role[u] =
              IF \E x \in StaffHospitals \ {h} :
                   directory.hospital[x].exists /\ u \in directory.hospital[x].administrators
              THEN directory.role[u]
              ELSE "user"
    ]_vars

\* C20: every user listed as an administrator of an existing hospital has
\* role hospital_admin.
C20_ListedAdministratorsHaveRole ==
  \A h \in StaffHospitals :
    directory.hospital[h].exists =>
      \A u \in Listed(h) : directory.role[u] = "hospital_admin"

\* the number of places of list holding x
Occurrences(list, x) == Cardinality({i \in DOMAIN list : list[i] = x})

\* C21: an ambulance id is in hospital H's ambulances list iff the ambulance
\* exists and its hospital is H, and it is there at most once.
C21_ListsMatchReferences ==
  \A h \in FleetHospitals, a \in FleetAmbulances :
    /\ Occurrences(fleet.ambulances[h], a) <= 1
    /\ Occurrences(fleet.ambulances[h], a) = 1
         <=> (fleet.ambulance[a].exists /\ fleet.ambulance[a].hospital = h)

\* C24: a hospital_admin is given an existing ambulance by id, and may
\* update it, exactly when its hospital is one they administer, and the list
\* they get holds exactly those ambulances.
C24_HospitalAdminSeesOwnAmbulances ==
  [][(http'.op \in {"getAmbulance", "putAmbulance", "listAmbulances"}
        /\ role[http'.user] = "hospital_admin") =>
       LET u == http'.user
           own(a) == /\ fleet.ambulance[a].exists
                     /\ fleet.ambulance[a].hospital \in HospitalIds
                     /\ u \in administrators[fleet.ambulance[a].hospital]
       IN IF http'.op = "listAmbulances"
          THEN http'.code = 200 /\ http'.data = {a \in FleetAmbulances : own(a)}
          ELSE (http'.id \in FleetAmbulances /\ fleet.ambulance[http'.id].exists) =>
                 (http'.code # 403 <=> own(http'.id))
    ]_vars

\* C22: a refund succeeds only on a completed payment with an amount above
\* 0 and at most the payment's; a failed refund leaves the payment as it was;
\* a successful one stores the amount asked for, and the status becomes
\* refunded exactly when that is the whole amount, completed otherwise.
C22_RefundPreconditionsAndEffect ==
  [][Answers("refund") =>
       LET p == http'.id
           amount == http'.body.amount
       IN IF http'.code = 200
          THEN /\ payments[p].exists
               /\ payments[p].status = "completed"
               /\ amount # <<>>
               /\ 0 < amount[1] /\ amount[1] <= payments[p].amount
               /\ payments'[p].refund = amount
               /\ payments'[p].amount = payments[p].amount
               /\ payments'[p].status =
                    IF amount[1] = payments[p].amount THEN "refunded" ELSE "completed"
          ELSE payments' = payments
    ]_vars

\* a partial refund was processed
C22_Witness ==
  /\ Answered("refund")
  /\ http.code = 200
  /\ payments[http.id].status = "completed"
  /\ payments[http.id].refund # <<>>
  /\ payments[http.id].refund[1] < payments[http.id].amount

RECURSIVE Sum(_)
Sum(amounts) == IF amounts = <<>> THEN 0 ELSE amounts[1] + Sum(Tail(amounts))

\* C30: the amounts of the refunds processed for a payment never add up to
\* more than the payment's amount.
C30_RefundsWithinAmount ==
  \A p \in PaymentIds : payments[p].exists => Sum(payments[p].refunds) <= payments[p].amount

\* the request being answered went to a route that writes
Mutating ==
  /\ http'.op = "route"
  /\ matched(http'.router, http'.method, http'.path) # 0
  /\ routes(http'.router)[matched(http'.router, http'.method, http'.path)].mutates

\* C23 as stated: every request to a route that writes, sent without a
\* valid bearer credential, is answered 401 and writes nothing.
C23_EveryMutatingRouteGated ==
  [][(Mutating /\ http'.credential # "valid") => (http'.code = 401 /\ writes' = writes)]_vars

\* the auth routes registered without protect
publicAuth ==
  {<<"register">>, <<"verify-otp">>, <<"resend-otp">>, <<"forgot-password">>,
   <<"reset-password">>}

\* C23: every request to a route that writes, other than the public
\* /api/auth routes, sent without a valid bearer credential is answered 401
\* and writes nothing.
C23_MutatingRoutesGatedExceptPublicAuth ==
  [][(Mutating /\ http'.credential # "valid"
        /\ ~(http'.router = "auth" /\ http'.method = "POST" /\ http'.path \in publicAuth))
       => (http'.code = 401 /\ writes' = writes)]_vars

\* a refund request without a credential was turned away after another
\* request had been let through
C23_Witness ==
  /\ Answered("route")
  /\ http.router = "payments" /\ http.method = "POST" /\ http.path = <<"x1", "refund">>
  /\ http.credential = "none"
  /\ http.code = 401
  /\ writes = 1

\* C27: a GET of /api/hospitals/nearby, /api/ambulances/nearest or
\* /api/payments/summary is handled by the handler declared for that path.
C27_LiteralRoutesReachable ==
  [][(http'.op = "route" /\ http'.method = "GET"
        /\ <<http'.router, http'.path>>
             \in {<<"hospitals", <<"nearby">>>>, <<"ambulances", <<"nearest">>>>,
                  <<"payments", <<"summary">>>>})
       => http'.handler = http'.path]_vars

\* C25: after a successful capacity update the hospital has
\* 0 <= available <= total.
C25_CapacityUpdateWithinBounds ==
  [][(Answers("capacity") /\ http'.code = 200) =>
       /\ 0 <= hospitals'[http'.id].available
       /\ hospitals'[http'.id].available <= hospitals'[http'.id].total]_vars

\* the event a successful request is to broadcast
Broadcast(op) ==
  CASE op = "create" -> "new-emergency"
    [] op = "status" -> "emergency-status-updated"
    [] op = "location" -> "ambulance-location-updated"

\* C26: every successful emergency creation, status update and ambulance
\* location update broadcasts its event: new-emergency,
\* emergency-status-updated carrying the new status, and
\* ambulance-location-updated.
C26_SuccessfulRequestsBroadcast ==
  [][(http'.op \in {"create", "status", "location"} /\ http'.code \in {200, 201}) =>
       \E ev \in emitted' :
         /\ ev.event = Broadcast(http'.op)
         /\ ev.id = http'.id
         /\ http'.op = "status" => ev.status = http'.body.status]_vars

\* C29: each emergency contributes at most one rating to its hospital: a
\* further addFeedback on an emergency that already has feedback leaves
\* the hospital's rating count and average unchanged.
C29_OneRatingPerEmergency ==
  [][(Answers("feedback") /\ feedback[http'.id] # <<>>) => rating' = rating]_vars

\* C28: under every interleaving of two assign requests that name the same
\* available ambulance for two different pending emergencies, at most one
\* succeeds: the two requests never both answer 200, and the ambulance is
\* never assigned to both emergencies.
C28_OneAssignPerAmbulance ==
  /\ ~(/\ \A p \in Procs : procs[p].pc = "done" /\ procs[p].code = 200
       /\ procs["p1"].id # procs["p2"].id)
  /\ \A a \in AmbulanceIds :
       Cardinality({e \in EmergencyIds : emergencies[e].ambulance = a}) <= 1

====
